---------------------------- MODULE Spec2Model ----------------------------
(***************************************************************************)
(* Model of the retrieval layer of legal-ka-render:                        *)
(*   - src/src/retrieve.py  query-intent parser, alias index and the       *)
(*                          hybrid retriever (HybridRetriever)             *)
(*   - src/src/chunking.py  legal-aware segmenter                          *)
(*                                                                         *)
(* Strings are sequences of characters.  A character is a one-character    *)
(* TLA+ string; the accented letters of the sources are written with a     *)
(* trailing apostrophe ("i'" is i-acute, "e'" e-acute, "o'" o-acute).      *)
(* Python's None and "" are both the empty sequence: every place of the    *)
(* code that reads such a value tests it for truth only.                   *)
(***************************************************************************)
EXTENDS Integers, Sequences, FiniteSets, TLC

VARIABLES
    \* ---- persisted index (written by ingest.main, read by the retriever)
    files_exist,     \* bm25.pkl and meta.pkl exist (an ingestion has completed)
    manifest,        \* data/pdfs_normalized/manifest.json, a sequence of rows
    collection,      \* the Chroma collection "legal_chunks", in insertion order
    bm25_file_ids,   \* bm25.pkl["ids"]
    \* ---- HybridRetriever object
    r_status,        \* "none" | "ok" | "failed" (constructor raised)
    r_bm25_ids,      \* self.bm25_ids
    r_id_to_meta,    \* self.id_to_meta, a sequence of <<chunk_id, meta>>
    r_alias_index,   \* self.alias_index, a sequence of <<alias, payload>>
    \* ---- the last call of retrieve
    query,           \* query_text
    q_intent,        \* intent, the parse of query_text (line 312)
    down,            \* the backend unreachable during the call: "none" | "vector" | "lexical"
    outcome,         \* "none" | "returned" | "raised"
    result,          \* the returned sequence of results
    trace,           \* the stages of retrieve the call executed
    merged,          \* the local list `results` of the merge stage, before the dedup
    locals,          \* further locals of the call: cand_ids and b_ids of the lexical stage
    returns,         \* what the call returns under each iteration order of `candidates`
    \* ---- chunk_pages_legal_aware
    pages,           \* the argument pages: a sequence of <<page_number, text>>
    c_tokens,        \* the argument chunk_tokens
    c_done,          \* the function has been applied to pages
    c_matches,       \* the local list `matches` of the call: [start, end, art]
    chunks,          \* the returned sequence of Chunk
    \* ---- parse_query
    p_text,          \* the argument query_text
    p_alias_index,   \* the argument alias_index, a sequence of <<alias, payload>>
    p_done,          \* the function has been applied
    p_explicit,      \* the locals tipo_norma, siglas, numero before the merge (line 212)
    p_alias,         \* the local alias_anchors
    p_intent,        \* the returned intent
    \* ---- the fusion of the merge stage under a configuration
    w_vector,        \* config.W_VECTOR as the environment sets it, in hundredths
    w_bm25,          \* config.W_BM25, in hundredths
    f_cands,         \* per candidate: v, b, text, meta and the keyword bonus
    f_done,          \* the merge loop has run over f_cands
    f_results,       \* the list `results` the loop built
    \* ---- ingest.main and the store it writes
    ing_collection,  \* the Chroma collection: a sequence of [id, text, meta]
    ing_bm25_ids,    \* bm25.pkl["ids"]
    ing_id_to_meta,  \* meta.pkl["id_to_meta"], a sequence of <<chunk_id, meta>>
    ing_run,         \* all_ids, all_texts and all_metas of the last run of main
    ing_status,      \* the last run: "none" | "done" | "raised"
    ing_runs         \* the number of runs after the first

vars == <<files_exist, manifest, collection, bm25_file_ids,
          r_status, r_bm25_ids, r_id_to_meta, r_alias_index,
          query, q_intent, down, outcome, result, trace, merged, locals, returns,
          pages, c_tokens, c_done, c_matches, chunks,
          p_text, p_alias_index, p_done, p_explicit, p_alias, p_intent,
          w_vector, w_bm25, f_cands, f_done, f_results,
          ing_collection, ing_bm25_ids, ing_id_to_meta, ing_run, ing_status, ing_runs>>

retrieverVars == <<files_exist, manifest, collection, bm25_file_ids,
                   r_status, r_bm25_ids, r_id_to_meta, r_alias_index,
                   query, q_intent, down, outcome, result, trace, merged, locals, returns>>

chunkVars == <<pages, c_tokens, c_done, c_matches, chunks>>

parseVars == <<p_text, p_alias_index, p_done, p_explicit, p_alias, p_intent>>

fuseVars == <<w_vector, w_bm25, f_cands, f_done, f_results>>

ingestVars == <<ing_collection, ing_bm25_ids, ing_id_to_meta, ing_run, ing_status, ing_runs>>

-----------------------------------------------------------------------------
(***************************************************************************)
(* Characters and strings                                                  *)
(***************************************************************************)
Digits == {"0", "1", "2", "3", "4", "5", "6", "7", "8", "9"}

UpperLetters == <<"A", "B", "C", "D", "E", "F", "G", "H", "I", "J", "K", "L", "M",
                  "N", "O", "P", "Q", "R", "S", "T", "U", "V", "W", "X", "Y", "Z",
                  "I'", "E'", "O'">>

LowerLetters == <<"a", "b", "c", "d", "e", "f", "g", "h", "i", "j", "k", "l", "m",
                  "n", "o", "p", "q", "r", "s", "t", "u", "v", "w", "x", "y", "z",
                  "i'", "e'", "o'">>

Range(f) == {f[i] : i \in DOMAIN f}

Min(S) == CHOOSE x \in S : \A y \in S : x <= y

Max(S) == CHOOSE x \in S : \A y \in S : y <= x

UpperSet == Range(UpperLetters)

WordChars == Range(UpperLetters) \cup Range(LowerLetters) \cup Digits \cup {"_"}

\* str.lower() on one character
LowerChar(c) ==
    IF c \in UpperSet
    THEN LowerLetters[CHOOSE i \in DOMAIN UpperLetters : UpperLetters[i] = c]
    ELSE c

\* str.lower()
Lower(s) == [i \in DOMAIN s |-> LowerChar(s[i])]

\* \s of the regular expressions, str.strip() and str.split()
IsSpace(c) == c \in {" ", "\n"}

\* \d
IsDigit(c) == c \in Digits

\* \w : letters, digits and the underscore
IsWord(c) == c \in WordChars

\* str.strip()
Strip(s) ==
    LET keep == {i \in DOMAIN s : ~IsSpace(s[i])}
    IN  IF keep = {} THEN <<>> ELSE SubSeq(s, Min(keep), Max(keep))

\* s[i:].startswith(pat)
StartsWithAt(s, i, pat) ==
    /\ i >= 1
    /\ i + Len(pat) - 1 <= Len(s)
    /\ SubSeq(s, i, i + Len(pat) - 1) = pat

\* pat in s (Python's substring test)
Contains(s, pat) == \E i \in 1..(Len(s) + 1) : StartsWithAt(s, i, pat)

\* the first index >= i of s that holds no white space (Len(s) + 1 if none): \s*
SkipSpaces(s, i) ==
    LET stop == {j \in i..Len(s) : ~IsSpace(s[j])}
    IN  IF stop = {} THEN Len(s) + 1 ELSE Min(stop)

\* the first index >= i of s that holds no digit (Len(s) + 1 if none): \d*
DigitRunEnd(s, i) ==
    LET stop == {j \in i..Len(s) : ~IsDigit(s[j])}
    IN  IF stop = {} THEN Len(s) + 1 ELSE Min(stop)

\* (?<!\d) at index i
NoDigitBefore(s, i) == i = 1 \/ ~IsDigit(s[i - 1])

\* str.replace(a, b) for single characters a, b
ReplaceChar(s, a, b) == [i \in DOMAIN s |-> IF s[i] = a THEN b ELSE s[i]]

\* str.replace(a, "") for a single character a
RemoveChar(s, a) == SelectSeq(s, LAMBDA c : c # a)

-----------------------------------------------------------------------------
(***************************************************************************)
(* Query-intent parser (retrieve.py)                                       *)
(***************************************************************************)

\* (\d{2})\.(\d{3}) anchored at i by (?<!\d) and closed by (?!\d)
DottedAt(ql, i) ==
    /\ NoDigitBefore(ql, i)
    /\ i + 5 <= Len(ql)
    /\ IsDigit(ql[i]) /\ IsDigit(ql[i + 1])
    /\ ql[i + 2] = "."
    /\ IsDigit(ql[i + 3]) /\ IsDigit(ql[i + 4]) /\ IsDigit(ql[i + 5])
    /\ (i + 6 > Len(ql) \/ ~IsDigit(ql[i + 6]))

\* (\d{1,3})[\/_\-](\d{2,4}) anchored at i by (?<!\d) and closed by (?!\d)
FractionAt(ql, i) ==
    LET e1 == DigitRunEnd(ql, i)
        e2 == DigitRunEnd(ql, e1 + 1)
    IN  /\ NoDigitBefore(ql, i)
        /\ i <= Len(ql)
        /\ e1 - i \in 1..3
        /\ e1 <= Len(ql)
        /\ ql[e1] \in {"/", "_", "-"}
        /\ e2 - (e1 + 1) \in 2..4

\* (\d{4,6}) anchored at i by (?<!\d) and closed by (?!\d)
BareRunAt(ql, i) ==
    /\ NoDigitBefore(ql, i)
    /\ i <= Len(ql)
    /\ DigitRunEnd(ql, i) - i \in 4..6

\* variant: the leftmost of the three forms wins
_extract_numero_leftmost(q) ==
    LET ql == Lower(q)
        d  == {i \in DOMAIN ql : DottedAt(ql, i)}
        f  == {i \in DOMAIN ql : FractionAt(ql, i)}
        b  == {i \in DOMAIN ql : BareRunAt(ql, i)}
        i  == Min(d \cup f \cup b)
        e1 == DigitRunEnd(ql, i)
    IN  IF d \cup f \cup b = {} THEN <<>>
        ELSE IF i \in d THEN SubSeq(ql, i, i + 1) \o SubSeq(ql, i + 3, i + 5)
        ELSE IF i \in f
        THEN SubSeq(ql, i, e1 - 1) \o <<"/">> \o SubSeq(ql, e1 + 1, DigitRunEnd(ql, e1 + 1) - 1)
        ELSE SubSeq(ql, i, e1 - 1)

\* variant: the dotted form 27.349 is not recognised
_extract_numero_undotted(q) ==
    LET ql == Lower(q)
        b  == {i \in DOMAIN ql : BareRunAt(ql, i)}
    IN  IF b # {} THEN SubSeq(ql, Min(b), DigitRunEnd(ql, Min(b)) - 1) ELSE <<>>

_extract_numero_generic(q) ==
    LET ql == Lower(q)
        d  == {i \in DOMAIN ql : DottedAt(ql, i)}
        f  == {i \in DOMAIN ql : FractionAt(ql, i)}
        b  == {i \in DOMAIN ql : BareRunAt(ql, i)}
    IN  IF d # {}
        THEN SubSeq(ql, Min(d), Min(d) + 1) \o SubSeq(ql, Min(d) + 3, Min(d) + 5)
        ELSE IF f # {}
        THEN LET i  == Min(f)
                 e1 == DigitRunEnd(ql, i)
                 e2 == DigitRunEnd(ql, e1 + 1)
             IN  SubSeq(ql, i, e1 - 1) \o <<"/">> \o SubSeq(ql, e1 + 1, e2 - 1)
        ELSE IF b # {}
        THEN SubSeq(ql, Min(b), DigitRunEnd(ql, Min(b)) - 1)
        ELSE <<>>

_extract_tipo_norma(q) ==
    LET ql == Lower(q)
    IN  IF Contains(ql, <<"l", "e", "y">>) THEN <<"l", "e", "y">>
        ELSE IF \/ Contains(ql, <<"d", "e", "c", "r", "e", "t", "o">>)
                \/ Contains(ql, <<"d", "e", "c", ".">>)
                \/ Contains(ql, <<"d", "n", "u">>)
        THEN <<"d", "e", "c", "r", "e", "t", "o">>
        ELSE IF \/ Contains(ql, <<"r", "e", "s", "o", "l">>)
                \/ Contains(ql, <<"r", "g">>)
                \/ Contains(ql, <<"r", "e", "s", ".">>)
        THEN <<"r", "e", "s", "o", "l", "u", "c", "i", "o", "n">>
        ELSE IF \/ Contains(ql, <<"c", "o", "d", "i", "g", "o">>)
                \/ Contains(ql, <<"c", "o'", "d", "i", "g", "o">>)
                \/ Contains(ql, <<"c", "c", "y", "c", "n">>)
        THEN <<"c", "o", "d", "i", "g", "o">>
        ELSE <<>>

\* \.?\s*(\d{1,4})(?!\d) from index p: the captured digits, <<>> if no match
ArticuloTail(ql, p) ==
    LET p1 == IF p <= Len(ql) /\ ql[p] = "." THEN p + 1 ELSE p
        p2 == SkipSpaces(ql, p1)
        e  == DigitRunEnd(ql, p2)
    IN  IF e - p2 \in 1..4 THEN SubSeq(ql, p2, e - 1) ELSE <<>>

\* (?<!\w)art(?:[íi]culo)?\.?\s*(\d{1,4})(?!\d) matched at index i
ArticuloAt(ql, i) ==
    IF ~((i = 1 \/ ~IsWord(ql[i - 1])) /\ StartsWithAt(ql, i, <<"a", "r", "t">>))
    THEN <<>>
    ELSE LET long == \/ StartsWithAt(ql, i + 3, <<"i", "c", "u", "l", "o">>)
                     \/ StartsWithAt(ql, i + 3, <<"i'", "c", "u", "l", "o">>)
         IN  IF long /\ ArticuloTail(ql, i + 8) # <<>>
             THEN ArticuloTail(ql, i + 8)
             ELSE ArticuloTail(ql, i + 3)

_extract_articulo(q) ==
    LET ql   == Lower(q)
        hits == {i \in DOMAIN ql : ArticuloAt(ql, i) # <<>>}
    IN  IF hits = {} THEN <<>> ELSE ArticuloAt(ql, Min(hits))

\* the payload of an alias without its empty values: {k: v for k, v in payload.items() if v}
\* (an absent key and an empty value read the same through .get())
resolve_alias_anchors(query_text, alias_index) ==
    LET ql   == Lower(query_text)
        hits == {i \in DOMAIN alias_index :
                    alias_index[i][1] # <<>> /\ Contains(ql, alias_index[i][1])}
    IN  IF hits = {}
        THEN [tipo_norma |-> <<>>, siglas |-> <<>>, numero |-> <<>>]
        ELSE alias_index[Min(hits)][2]

\* the acronym detected in the query text itself (parse_query, lines 202-210)
ExplicitSiglas(q) ==
    IF \/ Contains(q, <<"l", "g", "s">>)
       \/ Contains(q, <<"l", "e", "y", " ", "g", "e", "n", "e", "r", "a", "l", " ",
                        "d", "e", " ", "s", "o", "c", "i", "e", "d", "a", "d", "e", "s">>)
    THEN <<"l", "g", "s">>
    ELSE IF Contains(q, <<"c", "c", "y", "c", "n">>) THEN <<"c", "c", "y", "c", "n">>
    ELSE IF Contains(q, <<"i", "g", "j">>) THEN <<"i", "g", "j">>
    ELSE IF Contains(q, <<"s", "a", "s">>) THEN <<"s", "a", "s">>
    ELSE <<>>

\* variant: the value of the alias wins over the value of the text
parse_query_alias_first(query_text, alias_index) ==
    LET q      == Lower(query_text)
        tipo   == _extract_tipo_norma(q)
        numero == _extract_numero_generic(q)
        siglas == ExplicitSiglas(q)
        alias  == resolve_alias_anchors(query_text, alias_index)
    IN  [articulo_nro |-> _extract_articulo(q),
         tipo_norma   |-> IF alias.tipo_norma = <<>> THEN tipo ELSE alias.tipo_norma,
         numero       |-> IF alias.numero = <<>> THEN numero ELSE alias.numero,
         siglas       |-> IF alias.siglas = <<>> THEN siglas ELSE alias.siglas]

parse_query(query_text, alias_index) ==
    LET q      == Lower(query_text)
        tipo   == _extract_tipo_norma(q)
        numero == _extract_numero_generic(q)
        siglas == ExplicitSiglas(q)
        alias  == resolve_alias_anchors(query_text, alias_index)
    IN  [articulo_nro |-> _extract_articulo(q),
         tipo_norma   |-> IF tipo = <<>> THEN alias.tipo_norma ELSE tipo,
         numero       |-> IF numero = <<>> THEN alias.numero ELSE numero,
         siglas       |-> IF siglas = <<>> THEN alias.siglas ELSE siglas]

-----------------------------------------------------------------------------
(***************************************************************************)
(* Alias index (retrieve.py, build_alias_index)                            *)
(*                                                                         *)
(* A Python dict is a sequence of <<key, value>> pairs in insertion order; *)
(* assigning to a key that is present keeps the key's position.            *)
(***************************************************************************)

\* d[k] = v
DictPut(d, k, v) ==
    IF \E i \in DOMAIN d : d[i][1] = k
    THEN [i \in DOMAIN d |-> IF d[i][1] = k THEN <<k, v>> ELSE d[i]]
    ELSE Append(d, <<k, v>>)

\* k in d
DictHas(d, k) == \E i \in DOMAIN d : d[i][1] = k

\* d.get(k), <<>> when absent
DictGet(d, k) ==
    IF \E i \in DOMAIN d : d[i][1] = k
    THEN d[CHOOSE i \in DOMAIN d : d[i][1] = k][2]
    ELSE <<>>

\* Path(s).name: the last component of the path
PathName(s) ==
    LET sl == {i \in DOMAIN s : s[i] = "/"}
    IN  IF sl = {} THEN s ELSE SubSeq(s, Max(sl) + 1, Len(s))

\* Path(s).stem: the name without its last suffix
PathStem(s) ==
    LET name == PathName(s)
        dots == {i \in DOMAIN name : name[i] = "."}
    IN  IF dots # {} /\ Max(dots) > 1 /\ Max(dots) < Len(name)
        THEN SubSeq(name, 1, Max(dots) - 1)
        ELSE name

\* add_alias(a), lines 56-60
add_alias(aliases, a, payload) ==
    LET al == Strip(Lower(a))
    IN  IF al = <<>> THEN aliases ELSE DictPut(aliases, al, payload)

RECURSIVE AddAliases(_, _, _)
AddAliases(aliases, as, payload) ==
    IF as = <<>> THEN aliases
    ELSE AddAliases(add_alias(aliases, Head(as), payload), Tail(as), payload)

\* the body of the loop over the rows of the manifest, lines 47-76
AliasesOfRow(aliases, row) ==
    LET tipo    == Strip(row.tipo_norma)
        siglas  == Strip(row.siglas)
        numero  == Strip(row.numero)
        source  == Strip(row.source_file)
        normal  == Strip(row.normalized_file)
        detalle == Strip(row.detalle)
        payload == [tipo_norma |-> tipo, siglas |-> siglas, numero |-> numero]
        names   == <<source, normal, PathStem(source), PathStem(normal), detalle>>
        byNum   == IF numero = <<>> THEN <<>>
                   ELSE <<numero, ReplaceChar(numero, "-", "/"), ReplaceChar(numero, "/", "-")>>
        bySig   == IF siglas = <<>> THEN <<>> ELSE <<siglas>>
    IN  AddAliases(aliases, names \o byNum \o bySig, payload)

RECURSIVE AliasesOfRows(_, _)
AliasesOfRows(aliases, rows) ==
    IF rows = <<>> THEN aliases
    ELSE AliasesOfRows(AliasesOfRow(aliases, Head(rows)), Tail(rows))

\* the aliases set whatever the manifest holds, lines 79-84
UniversalAliases ==
    << <<<<"l", "g", "s">>,
         [tipo_norma |-> <<"l", "e", "y">>, siglas |-> <<"l", "g", "s">>, numero |-> <<>>]>>,
       <<<<"c", "c", "y", "c", "n">>,
         [tipo_norma |-> <<"c", "o", "d", "i", "g", "o">>,
          siglas |-> <<"c", "c", "y", "c", "n">>, numero |-> <<>>]>>,
       <<<<"i", "g", "j">>,
         [tipo_norma |-> <<"r", "e", "s", "o", "l", "u", "c", "i", "o", "n">>,
          siglas |-> <<"i", "g", "j">>, numero |-> <<>>]>>,
       <<<<"s", "a", "s">>,
         [tipo_norma |-> <<"l", "e", "y">>, siglas |-> <<"s", "a", "s">>, numero |-> <<>>]>> >>

RECURSIVE PutAll(_, _)
PutAll(d, kvs) ==
    IF kvs = <<>> THEN d
    ELSE PutAll(DictPut(d, Head(kvs)[1], Head(kvs)[2]), Tail(kvs))

\* manifest_map is keyed by normalized_file (load_manifest_map): a later row with
\* the same normalized_file replaces the earlier one, and a row without one is dropped
RECURSIVE ManifestMap(_, _)
ManifestMap(d, rows) ==
    IF rows = <<>> THEN d
    ELSE ManifestMap(IF Head(rows).normalized_file = <<>> THEN d
                     ELSE DictPut(d, Head(rows).normalized_file, Head(rows)),
                     Tail(rows))

load_manifest_map(rows) == ManifestMap(<<>>, rows)

build_alias_index(manifest_map) ==
    PutAll(AliasesOfRows(<<>>, [i \in DOMAIN manifest_map |-> manifest_map[i][2]]),
           UniversalAliases)

-----------------------------------------------------------------------------
(***************************************************************************)
(* Configuration and scoring constants                                     *)
(*                                                                         *)
(* Scores are integers in units of 1/10000: a normalised score lies in     *)
(* 0..100 and the weights are in hundredths, so W_VECTOR * v + W_BM25 * b  *)
(* and the additive bonuses are exact.                                     *)
(***************************************************************************)
TOPK_VECTOR == 50

TOPK_BM25 == 50

TOPK_FINAL == 40

W_VECTOR == 80

W_BM25 == 20

NORM_ONE == 100

EXACT_SCORE == 20000

FORCED_SCORE == 16000

LEY_BONUS == 400

BONUS_NUMERO == 400

BONUS_SIGLAS == 300

BONUS_TIPO == 100

BONUS_ARTICULO == 600

AnchorKeys == <<"numero", "siglas", "tipo_norma">>

-----------------------------------------------------------------------------
(***************************************************************************)
(* The collaborators: the Chroma collection and the BM25 index             *)
(*                                                                         *)
(* The collection is a sequence of [id, text, meta] in insertion order.    *)
(* A where-clause is a sequence of <<field, value>> equalities ($and of    *)
(* $eq); get returns the matching entries in collection order.             *)
(***************************************************************************)

\* the non-empty equalities of eq_dict, values stripped; <<>> stands for None
chroma_where(eq_dict) ==
    LET cleaned == [i \in DOMAIN eq_dict |-> <<eq_dict[i][1], Strip(eq_dict[i][2])>>]
    IN  SelectSeq(cleaned, LAMBDA kv : kv[2] # <<>>)

\* the $and of $eq of a where-clause on one metadata record
MetaSatisfies(meta, w) == \A i \in DOMAIN w : meta[w[i][1]] = w[i][2]

\* collection.get(where=w)
CollectionGetWhere(coll, w) == SelectSeq(coll, LAMBDA c : MetaSatisfies(c.meta, w))

\* collection.get(ids=[cid])
CollectionGetIds(coll, cid) == SelectSeq(coll, LAMBDA c : c.id = cid)

\* the indices of keys ordered by decreasing key, equal keys by increasing index:
\* np.argsort(-keys) (numpy sorts the short arrays of the model by insertion,
\* which is stable) and the order list.sort(reverse=True) gives
RECURSIVE InsertIdxDesc(_, _, _)
InsertIdxDesc(sorted, i, keys) ==
    IF sorted = <<>> THEN <<i>>
    ELSE IF keys[Head(sorted)] >= keys[i]
         THEN <<Head(sorted)>> \o InsertIdxDesc(Tail(sorted), i, keys)
         ELSE <<i>> \o sorted

RECURSIVE ArgSortDescFrom(_, _, _)
ArgSortDescFrom(sorted, i, keys) ==
    IF i > Len(keys) THEN sorted
    ELSE ArgSortDescFrom(InsertIdxDesc(sorted, i, keys), i + 1, keys)

ArgSortDesc(keys) == ArgSortDescFrom(<<>>, 1, keys)

\* s reordered by ArgSortDesc of its keys
SortDescBy(s, keys) ==
    LET permuted(idx) == [j \in DOMAIN s |-> s[idx[j]]]
    IN  permuted(ArgSortDesc(<<>> \o keys))

\* s[:n]
Take(s, n) == SubSeq(s, 1, IF Len(s) < n THEN Len(s) ELSE n)

\* collection.query(query_embeddings, n_results, where): the n_results entries
\* nearest to the embedding among those the where-clause admits.  sim[id] is the
\* similarity 1 - cosine distance of the entry to the query embedding.
CollectionQuery(coll, sim, n_results, w) ==
    LET admitted == IF w = <<>> THEN coll ELSE CollectionGetWhere(coll, w)
    IN  Take(SortDescBy(admitted, [i \in DOMAIN admitted |-> sim[admitted[i].id]]),
             n_results)

\* _minmax_norm on a sequence of scores
_minmax_norm(scores) ==
    IF scores = <<>> THEN scores
    ELSE LET mn == Min(Range(scores))
             mx == Max(Range(scores))
         IN  IF mx - mn = 0
             THEN [i \in DOMAIN scores |-> 0]
             ELSE [i \in DOMAIN scores |-> ((scores[i] - mn) * NORM_ONE) \div (mx - mn)]

-----------------------------------------------------------------------------
(***************************************************************************)
(* Reranking rules (retrieve.py)                                           *)
(***************************************************************************)
S_ley == <<"l", "e", "y">>

_is_from_ley(meta) ==
    \/ Lower(meta.tipo_norma) = S_ley
    \/ Contains(Lower(meta.source_file \o <<" ">> \o meta.documento_nombre \o <<" ">>
                      \o meta.doc_id \o <<" ">> \o meta.normalized_file),
                S_ley)

_matches_article_request(meta, intent) ==
    /\ intent.articulo_nro # <<>>
    /\ Strip(meta.articulo_nro) = Strip(intent.articulo_nro)
    /\ \A i \in DOMAIN AnchorKeys :
          intent[AnchorKeys[i]] # <<>>
             => Strip(Lower(meta[AnchorKeys[i]])) = Strip(Lower(intent[AnchorKeys[i]]))

\* ^\s*art(?:[íi]culo)?\.?\s*<art>\b with (?im), the line starting at index i
ArticleLineAt(t, i, art) ==
    LET p    == SkipSpaces(t, i)
        long == \/ StartsWithAt(t, p + 3, <<"i", "c", "u", "l", "o">>)
                \/ StartsWithAt(t, p + 3, <<"i'", "c", "u", "l", "o">>)
        Tail1(q) ==
            LET q1 == IF q <= Len(t) /\ t[q] = "." THEN q + 1 ELSE q
                q2 == SkipSpaces(t, q1)
            IN  /\ StartsWithAt(t, q2, art)
                /\ (q2 + Len(art) > Len(t) \/ ~IsWord(t[q2 + Len(art)]))
    IN  /\ (i = 1 \/ t[i - 1] = "\n")
        /\ StartsWithAt(t, p, <<"a", "r", "t">>)
        /\ ((long /\ Tail1(p + 8)) \/ Tail1(p + 3))

keyword_bonus(text, intent) ==
    LET bonus(t, plain) ==
            (IF intent.numero # <<>> /\ Contains(plain, RemoveChar(intent.numero, "/"))
             THEN BONUS_NUMERO ELSE 0)
          + (IF intent.siglas # <<>> /\ Contains(t, intent.siglas) THEN BONUS_SIGLAS ELSE 0)
          + (IF intent.tipo_norma # <<>> /\ Contains(t, intent.tipo_norma)
             THEN BONUS_TIPO ELSE 0)
          + (IF /\ intent.articulo_nro # <<>>
                /\ \E i \in 1..(Len(t) + 1) : ArticleLineAt(t, i, intent.articulo_nro)
             THEN BONUS_ARTICULO ELSE 0)
        lowered(t) == bonus(t, RemoveChar(RemoveChar(RemoveChar(t, "."), "/"), "-"))
    IN  lowered(Lower(text))

-----------------------------------------------------------------------------
(***************************************************************************)
(* HybridRetriever.retrieve, stage by stage                                *)
(***************************************************************************)

\* the truthy entries of a dict literal built by `if intent.get(k): d[k] = ...`
Truthy(d) == SelectSeq(d, LAMBDA kv : kv[2] # <<>>)

\* variant: the lookup filters on the article alone
WhereExact_article_only(intent) ==
    Truthy(<< <<"articulo_nro", intent.articulo_nro>> >>)

\* where_exact, lines 321-329, and where_force, lines 475-481
WhereExact(intent) ==
    Truthy(<< <<"articulo_nro", intent.articulo_nro>>, <<"numero", intent.numero>>,
              <<"siglas", intent.siglas>>, <<"tipo_norma", intent.tipo_norma>> >>)

\* v_filter, lines 349-355
VFilter(intent) ==
    Truthy(<< <<"numero", intent.numero>>, <<"siglas", intent.siglas>>,
              <<"tipo_norma", intent.tipo_norma>> >>)

\* has_article and has_anchor, lines 314 and 331
HasArticle(intent) == intent.articulo_nro # <<>>

HasAnchor(intent) ==
    intent.numero # <<>> \/ intent.siglas # <<>> \/ intent.tipo_norma # <<>>

\* the entries of a metadata lookup as results of one score and match type
AsResults(entries, score, match_type) ==
    [i \in DOMAIN entries |->
        [chunk_id |-> entries[i].id, score |-> score, text |-> entries[i].text,
         meta |-> entries[i].meta, match_type |-> match_type]]

\* variant: the exact-match stage never fires
ExactLookup_skipped(intent) == <<>>

\* stage 0, lines 333-344: the lookup of the exact match
ExactLookup(intent) ==
    IF HasArticle(intent) /\ HasAnchor(intent) /\ chroma_where(WhereExact(intent)) # <<>>
    THEN CollectionGetWhere(collection, chroma_where(WhereExact(intent)))
    ELSE <<>>

\* stage 1, lines 357-376: vector_map as a sequence of [id, text, meta, v_score]
VectorMap(intent, sim) ==
    LET v_filter == VFilter(intent)
        v_where  == IF v_filter # <<>> THEN chroma_where(v_filter) ELSE <<>>
        entries(vres, v_sim_n) ==
            [i \in DOMAIN vres |->
                [id |-> vres[i].id, text |-> vres[i].text, meta |-> vres[i].meta,
                 v_score |-> v_sim_n[i]]]
        normed(vres) ==
            entries(vres, <<>> \o _minmax_norm([i \in DOMAIN vres |-> sim[vres[i].id]]))
    IN  <<>> \o normed(<<>> \o CollectionQuery(collection, sim, TOPK_VECTOR, v_where))

\* the anchor filter of the lexical stage on one candidate, lines 392-399
PassesVFilter(cid, v_filter) ==
    LET meta == DictGet(r_id_to_meta, cid)
    IN  /\ DictHas(r_id_to_meta, cid)
        /\ \A i \in DOMAIN v_filter :
              Lower(meta[v_filter[i][1]]) = Lower(v_filter[i][2])

\* the pool of lines 384-386: cand_ids and cand_scores as a sequence of <<id, score>>
Bm25Pool(bsc) ==
    LET bm25_scores == [i \in DOMAIN r_bm25_ids |-> bsc[i]]
        pool        == Take(ArgSortDesc(bm25_scores), TOPK_BM25 * 5)
    IN  [j \in DOMAIN pool |-> <<r_bm25_ids[pool[j]], bm25_scores[pool[j]]>>]

\* variant: the anchor filter of the lexical stage is not applied
Bm25Chosen_unfiltered(intent, bsc) == Take(Bm25Pool(bsc), TOPK_BM25)

\* b_ids and b_scores of lines 388-412 as a sequence of <<id, score>>
Bm25Chosen(intent, bsc) ==
    LET v_filter == VFilter(intent)
        cand     == Bm25Pool(bsc)
        filtered == SelectSeq(cand, LAMBDA c : PassesVFilter(c[1], v_filter))
    IN  IF v_filter # <<>> /\ filtered # <<>>
        THEN Take(filtered, TOPK_BM25)
        ELSE Take(cand, TOPK_BM25)

\* stage 2, lines 381-415: bm25_map as a sequence of <<chunk_id, normalised score>>.
\* bsc[i] is the BM25 score of the i-th indexed document for the query tokens.
Bm25Map(intent, bsc) ==
    LET chosen     == Bm25Chosen(intent, bsc)
        b_scores_n == _minmax_norm([j \in DOMAIN chosen |-> chosen[j][2]])
    IN  PutAll(<<>>, [j \in DOMAIN chosen |-> <<chosen[j][1], b_scores_n[j]>>])

\* candidates, line 420
Candidates(vector_map, bm25_map) ==
    {vector_map[i].id : i \in DOMAIN vector_map} \cup {bm25_map[i][1] : i \in DOMAIN bm25_map}

\* a lexical-only candidate whose id the collection does not hold: lines 432-434
\* index an empty list
MergeRaises(vector_map, bm25_map) ==
    \E cid \in Candidates(vector_map, bm25_map) :
        /\ \A i \in DOMAIN vector_map : vector_map[i].id # cid
        /\ CollectionGetIds(collection, cid) = <<>>

\* v, b, text, meta and the keyword bonus of one candidate, lines 425-437
MergeInputs(cid, vector_map, bm25_map, intent) ==
    LET inV    == \E i \in DOMAIN vector_map : vector_map[i].id = cid
        ventry == vector_map[CHOOSE i \in DOMAIN vector_map : vector_map[i].id = cid]
        got    == CollectionGetIds(collection, cid)[1]
        text   == IF inV THEN ventry.text ELSE got.text
    IN  [v     |-> IF inV THEN ventry.v_score ELSE 0,
         b     |-> IF DictHas(bm25_map, cid) THEN DictGet(bm25_map, cid) ELSE 0,
         text  |-> text,
         meta  |-> IF inV THEN ventry.meta ELSE got.meta,
         bonus |-> keyword_bonus(text, intent)]

\* variant: the vector score lowers the fused score
FuseWith_vector_penalty(wv, wb, cid, c) ==
    [chunk_id |-> cid, score |-> wb * c.b + c.bonus - wv * c.v,
     text |-> c.text, meta |-> c.meta, match_type |-> "hybrid"]

\* the fused score and the result of one candidate, lines 426, 437 and 439, under
\* the weights wv and wb (in hundredths, as v and b are)
FuseWith(wv, wb, cid, c) ==
    [chunk_id |-> cid, score |-> wv * c.v + wb * c.b + c.bonus,
     text |-> c.text, meta |-> c.meta, match_type |-> "hybrid"]

\* the same under the weights of the reference deployment
Fuse(cid, c) == FuseWith(W_VECTOR, W_BM25, cid, c)

\* the body of the merge loop for one candidate, lines 424-439
MergeOne(cid, vector_map, bm25_map, intent) ==
    Fuse(cid, MergeInputs(cid, vector_map, bm25_map, intent))

\* the list `results` for the iteration order o, given the inputs of its candidates
MergeFrom(o, inputs) == <<>> \o [i \in DOMAIN o |-> Fuse(o[i], inputs[i])]

\* the list `results` under the iteration order that visits its candidates in the order p
Reorder(results, p) == [i \in DOMAIN p |-> results[p[i]]]

\* the key of the deduplication, lines 445-452
DedupKey(m) ==
    <<m.siglas, m.tipo_norma, m.numero, m.articulo_nro, m.page_start, m.page_end>>

\* variant: the first candidate of a key is kept whatever the scores
RECURSIVE Dedup_first_wins(_, _)
Dedup_first_wins(dedup, results) ==
    IF results = <<>> THEN [i \in DOMAIN dedup |-> dedup[i][2]]
    ELSE LET r   == Head(results)
             key == DedupKey(r.meta)
         IN  Dedup_first_wins(IF ~DictHas(dedup, key) THEN DictPut(dedup, key, r) ELSE dedup,
                              Tail(results))

\* the loop of the deduplication, lines 442-456: the values of the dict in key order
RECURSIVE Dedup(_, _)
Dedup(dedup, results) ==
    IF results = <<>> THEN [i \in DOMAIN dedup |-> dedup[i][2]]
    ELSE LET r   == Head(results)
             key == DedupKey(r.meta)
         IN  Dedup(IF ~DictHas(dedup, key) \/ r.score > DictGet(dedup, key).score
                   THEN DictPut(dedup, key, r) ELSE dedup,
                   Tail(results))

\* lines 461-465
WithLeyBonus(r) ==
    IF _is_from_ley(r.meta)
    THEN [r EXCEPT !.score = @ + LEY_BONUS, !.match_type = "hybrid+ley_bonus"]
    ELSE r

\* out.sort(key=score, reverse=True), lines 467 and 507
SortByScore(rs) == SortDescBy(rs, [i \in DOMAIN rs |-> rs[i].score])

\* forced, lines 471 and 504
Forced(out, intent) == SelectSeq(out, LAMBDA r : _matches_article_request(r.meta, intent))

\* the injection of the fallback lookup, lines 483-502
Injected(out, intent) ==
    LET w_force == chroma_where(WhereExact(intent))
        exact2  == IF w_force # <<>> THEN CollectionGetWhere(collection, w_force) ELSE <<>>
        fresh   == SelectSeq(AsResults(exact2, FORCED_SCORE, "forced_article_metadata"),
                             LAMBDA r : \A i \in DOMAIN out : out[i].chunk_id # r.chunk_id)
    IN  out \o fresh

\* variant: the matching results are put behind the others
ForcedFirst_rest_first(out, intent) ==
    LET last(forced, forced_ids) ==
            IF forced = <<>> THEN out
            ELSE SelectSeq(out, LAMBDA r : r.chunk_id \notin forced_ids) \o forced
        sorted(forced) == last(forced, {forced[i].chunk_id : i \in DOMAIN forced})
    IN  sorted(<<>> \o SortByScore(Forced(out, intent)))

\* lines 506-510
ForcedFirst(out, intent) ==
    LET first(forced, forced_ids) ==
            IF forced = <<>> THEN out
            ELSE forced \o SelectSeq(out, LAMBDA r : r.chunk_id \notin forced_ids)
        sorted(forced) == first(forced, {forced[i].chunk_id : i \in DOMAIN forced})
    IN  sorted(<<>> \o SortByScore(Forced(out, intent)))

\* stage 4, lines 470-510
HardBoost(out, intent) ==
    IF ~HasArticle(intent) THEN out
    ELSE IF Forced(out, intent) # <<>> THEN ForcedFirst(out, intent)
    ELSE ForcedFirst(Injected(out, intent), intent)

\* the merge loop, lines 420-439, for the iteration order `order` of the set candidates
Merge(order, vector_map, bm25_map, intent) ==
    [i \in DOMAIN order |-> MergeOne(order[i], vector_map, bm25_map, intent)]

\* lines 441-467: the dedup, the statute bonus and the sort
Rank(results) ==
    LET bonus(out) == SortByScore([i \in DOMAIN out |-> WithLeyBonus(out[i])])
    IN  bonus(Dedup(<<>>, results))

-----------------------------------------------------------------------------
(***************************************************************************)
(* The metadata ingest.main attaches to a chunk (ingest.py)                *)
(***************************************************************************)
infer_doc_id(pdf_name) == ReplaceChar(Strip(Lower(PathStem(pdf_name))), " ", "_")

EmptyRow ==
    [tipo_norma |-> <<>>, siglas |-> <<>>, numero |-> <<>>, source_file |-> <<>>,
     normalized_file |-> <<>>, detalle |-> <<>>]

norma_meta_from_manifest(pdf_name, manifest_map) ==
    LET row == IF DictHas(manifest_map, pdf_name) THEN DictGet(manifest_map, pdf_name)
               ELSE EmptyRow
    IN  [tipo_norma       |-> Strip(row.tipo_norma),
         siglas           |-> Strip(row.siglas),
         numero           |-> Strip(row.numero),
         documento_nombre |-> IF Strip(row.detalle) # <<>> THEN Strip(row.detalle)
                              ELSE PathStem(pdf_name),
         source_file      |-> IF Strip(row.source_file) # <<>> THEN Strip(row.source_file)
                              ELSE PathName(pdf_name),
         normalized_file  |-> PathName(pdf_name)]

norma_meta_fallback(pdf_name) ==
    [tipo_norma |-> <<>>, siglas |-> <<>>, numero |-> <<>>,
     documento_nombre |-> PathStem(pdf_name), source_file |-> PathName(pdf_name),
     normalized_file |-> PathName(pdf_name)]

\* using_manifest and the choice of norma_meta, lines 148-149 and 178-181
NormaMeta(pdf_name, rows) ==
    IF load_manifest_map(rows) # <<>>
    THEN norma_meta_from_manifest(pdf_name, load_manifest_map(rows))
    ELSE norma_meta_fallback(pdf_name)

\* meta, lines 195-212 (the keys article and section, which the retriever never
\* reads, are left out; a chunk without article has no key articulo_nro, which
\* every reader takes as "")
ChunkMeta(pdf_name, norma_meta, page_start, page_end, article) ==
    [doc_id           |-> infer_doc_id(pdf_name),
     page_start       |-> page_start,
     page_end         |-> page_end,
     tipo_norma       |-> norma_meta.tipo_norma,
     siglas           |-> norma_meta.siglas,
     numero           |-> norma_meta.numero,
     documento_nombre |-> norma_meta.documento_nombre,
     source_file      |-> norma_meta.source_file,
     normalized_file  |-> norma_meta.normalized_file,
     articulo_nro     |-> article]

-----------------------------------------------------------------------------
(***************************************************************************)
(* Legal-aware segmenter (chunking.py)                                     *)
(*                                                                         *)
(* Further characters: "em" and "en" are the em and en dashes, "ord" and   *)
(* "deg" the ordinal and degree signs, "nbsp" the no-break space and "zw"  *)
(* the zero-width space.                                                   *)
(***************************************************************************)
Dashes == {"-", "em", "en"}

Ordinals == {"ord", "deg"}

DigitChars == <<"0", "1", "2", "3", "4", "5", "6", "7", "8", "9">>

\* s[i - 1 : i] of Python for the 1-based index i: "" outside the string
CharAt(s, i) == IF i \in DOMAIN s THEN s[i] ELSE ""

\* pat (lower case) matches at index i of s under (?i)
StartsWithCI(s, i, pat) ==
    /\ i >= 1
    /\ i + Len(pat) - 1 <= Len(s)
    /\ \A k \in DOMAIN pat : LowerChar(s[i + k - 1]) = pat[k]

\* str(n) for n >= 0
RECURSIVE IntDigits(_)
IntDigits(n) ==
    IF n < 10 THEN <<DigitChars[n + 1]>>
    ELSE IntDigits(n \div 10) \o <<DigitChars[(n % 10) + 1]>>

\* int(s) for a string of digits
RECURSIVE ParseInt(_)
ParseInt(s) ==
    IF s = <<>> THEN 0
    ELSE 10 * ParseInt(SubSeq(s, 1, Len(s) - 1))
         + ((CHOOSE d \in DOMAIN DigitChars : DigitChars[d] = s[Len(s)]) - 1)

\* variant: the ordinal is left out of the chunk id
Pad4_no_ordinal(idx) == <<"0", "0", "0", "0">>

\* f"{idx:04d}"
Pad4(idx) ==
    LET d == IntDigits(idx)
    IN  [i \in 1..(IF Len(d) < 4 THEN 4 - Len(d) ELSE 0) |-> "0"] \o d

\* the ends of the header keyword at index p, in the order the alternation
\* (art(?:[íi]culo)?|art\.) tries them
KeywordEnds(s, p) ==
    IF ~StartsWithCI(s, p, <<"a", "r", "t">>) THEN <<>>
    ELSE (IF \/ StartsWithCI(s, p + 3, <<"i", "c", "u", "l", "o">>)
             \/ StartsWithCI(s, p + 3, <<"i'", "c", "u", "l", "o">>)
          THEN <<p + 8>> ELSE <<>>)
         \o <<p + 3>>
         \o (IF CharAt(s, p + 3) = "." THEN <<p + 4>> ELSE <<>>)

\* what follows the keyword that ends before index k:
\*   \s*(?:n[º°o]\s*)?(?:\n\s*)?(\d{1,4})(?:\s*[º°])?\s*<separator>
\* with the separator (?:\.\s*[—\-–]|[—\-–]|\.) of _ARTICLE_RE when article holds
\* and (?:\.\s*[—\-–]|[—\-–]\s*) of _HEADER_GLUE_RE otherwise.
\* [end, num]: the index after the match and the digits; end = 0 if no match
\* (each step of the pattern takes the indexes found so far as parameters)
HeaderTail(s, k, article) ==
    LET tail(d, e, end) ==
            IF e - d \in 1..4 /\ end # 0
            THEN [end |-> end, num |-> SubSeq(s, d, e - 1)]
            ELSE [end |-> 0, num |-> <<>>]
        \* the separator at sp; ad is the index after the spaces that follow sp
        separator(sp, ad) ==
            IF CharAt(s, sp) = "." /\ CharAt(s, ad) \in Dashes THEN ad + 1
            ELSE IF CharAt(s, sp) \in Dashes THEN (IF article THEN sp + 1 ELSE ad)
            ELSE IF article /\ CharAt(s, sp) = "." THEN sp + 1
            ELSE 0
        at_sep(d, e, sp) == tail(d, e, separator(sp, SkipSpaces(s, sp + 1)))
        \* the optional ordinal at o, after the digits d..e-1
        ordinal(d, e, o) ==
            at_sep(d, e, SkipSpaces(s, IF CharAt(s, o) \in Ordinals THEN o + 1 ELSE e))
        digits(d, e) == ordinal(d, e, SkipSpaces(s, e))
        number(d) == digits(d, DigitRunEnd(s, d))
        \* the optional n[ord deg o] at q1
        enne(q1) ==
            number(IF /\ LowerChar(CharAt(s, q1)) = "n"
                      /\ (\/ LowerChar(CharAt(s, q1 + 1)) = "o"
                          \/ CharAt(s, q1 + 1) \in Ordinals)
                   THEN SkipSpaces(s, q1 + 2) ELSE q1)
    IN  enne(SkipSpaces(s, k))

\* the header whose keyword starts at index p: [end, num, kw], end = 0 if none
HeaderAt(s, p, article) ==
    LET header(k, h) == [end |-> h.end, num |-> h.num, kw |-> SubSeq(s, p, k - 1)]
        first_good(ks, tails, good) ==
            IF good = {} THEN [end |-> 0, num |-> <<>>, kw |-> <<>>]
            ELSE header(ks[Min(good)], tails[Min(good)])
        try(ks, tails) == first_good(ks, tails, {j \in DOMAIN tails : tails[j].end # 0})
        keyword(ks) == try(ks, [j \in DOMAIN ks |-> HeaderTail(s, ks[j], article)])
    IN  keyword(KeywordEnds(s, p))

\* _HEADER_GLUE_RE matched at index i: (?<!\n)(?:\s+) and then the header
GlueMatchAt(s, i) ==
    IF i \in DOMAIN s /\ IsSpace(s[i]) /\ (i = 1 \/ s[i - 1] # "\n")
    THEN HeaderAt(s, SkipSpaces(s, i), FALSE)
    ELSE [end |-> 0, num |-> <<>>, kw |-> <<>>]

\* _HEADER_GLUE_RE.sub(r"\n\1 \2. —", s) on s from index pos on
RECURSIVE GlueFrom(_, _)
GlueFrom(s, pos) ==
    LET replaced(i, m) ==
            SubSeq(s, pos, i - 1) \o <<"\n">> \o m.kw \o <<" ">> \o m.num
            \o <<".", " ", "em">> \o GlueFrom(s, m.end)
        leftmost(ms, starts) ==
            IF starts = {} THEN SubSeq(s, pos, Len(s))
            ELSE replaced(Min(starts), ms[Min(starts)])
        scan(ms) == leftmost(ms, {i \in DOMAIN ms : ms[i].end # 0})
    IN  scan([i \in pos..Len(s) |-> GlueMatchAt(s, i)])

normalize_legal_text(s) ==
    IF s = <<>> THEN s
    ELSE GlueFrom(RemoveChar(ReplaceChar(s, "nbsp", " "), "zw"), 1)

\* _ARTICLE_RE matched with ^ at index i: [start, end, art], end = 0 if no match
ArticleMatchAt(full, i) ==
    LET match(h) ==
            IF (i = 1 \/ full[i - 1] = "\n") /\ h.end # 0
            THEN [start |-> i, end |-> h.end, art |-> h.num]
            ELSE [start |-> i, end |-> 0, art |-> <<>>]
    IN  match(HeaderAt(full, SkipSpaces(full, i), TRUE))

\* list(_ARTICLE_RE.finditer(full)) from index pos on
RECURSIVE ArticleMatchesFrom(_, _)
ArticleMatchesFrom(full, pos) ==
    LET found(m) == <<m>> \o ArticleMatchesFrom(full, m.end)
        next_match(ms, starts) == IF starts = {} THEN <<>> ELSE found(ms[Min(starts)])
        finditer(ms) == next_match(ms, {i \in DOMAIN ms : ms[i].end # 0})
    IN  finditer([i \in pos..Len(full) |-> ArticleMatchAt(full, i)])

\* sep.join(parts)
RECURSIVE Join(_, _)
Join(parts, sep) ==
    IF parts = <<>> THEN <<>>
    ELSE IF Len(parts) = 1 THEN parts[1]
    ELSE parts[1] \o sep \o Join(Tail(parts), sep)

S_PAGE == <<"[", "P", "A", "G", "E", " ">>

\* f"[PAGE {p}]\n{t}"
PageBlock(p, t) == S_PAGE \o IntDigits(p) \o <<"]", "\n">> \o t

\* \[PAGE (\d+)\] matched at index i of b: the index after the match, 0 if none
MarkerEnd(b, i) ==
    LET e == DigitRunEnd(b, i + 6)
    IN  IF StartsWithAt(b, i, S_PAGE) /\ e > i + 6 /\ CharAt(b, e) = "]" THEN e + 1 ELSE 0

\* [int(x) for x in re.findall(r"\[PAGE (\d+)\]", block)] as a set
PageNums(b) ==
    {ParseInt(SubSeq(b, i + 6, MarkerEnd(b, i) - 2)) :
        i \in {j \in DOMAIN b : MarkerEnd(b, j) # 0}}

\* re.sub(r"\[PAGE \d+\]\n?", "", b) from index pos on
RECURSIVE StripMarkersFrom(_, _)
StripMarkersFrom(b, pos) ==
    LET starts == {i \in pos..Len(b) : MarkerEnd(b, i) # 0}
    IN  IF starts = {} THEN SubSeq(b, pos, Len(b))
        ELSE LET i == Min(starts)
                 e == MarkerEnd(b, i)
             IN  SubSeq(b, pos, i - 1)
                 \o StripMarkersFrom(b, IF CharAt(b, e) = "\n" THEN e + 1 ELSE e)

SectionWords ==
    {<<"t", "i", "t", "u", "l", "o">>, <<"t", "i'", "t", "u", "l", "o">>,
     <<"c", "a", "p", "i", "t", "u", "l", "o">>, <<"c", "a", "p", "i'", "t", "u", "l", "o">>,
     <<"s", "e", "c", "c", "i", "o", "n">>, <<"s", "e", "c", "c", "i", "o'", "n">>}

RomanOrDigit == {"i", "v", "x", "l", "c", "d", "m"} \cup Digits

\* _SECTION_RE matched with ^ at index i: the matched line, <<>> if no match
SectionAt(t, i) ==
    LET p    == SkipSpaces(t, i)
        ws   == {w \in SectionWords : StartsWithCI(t, p, w)}
        k    == p + Len(CHOOSE w \in ws : TRUE)
        r    == SkipSpaces(t, k)
        stop == {j \in r..Len(t) : LowerChar(t[j]) \notin RomanOrDigit}
        e    == IF stop = {} THEN Len(t) + 1 ELSE Min(stop)
        nl   == {j \in e..Len(t) : t[j] = "\n"}
        eol  == IF nl = {} THEN Len(t) + 1 ELSE Min(nl)
    IN  IF /\ (i = 1 \/ t[i - 1] = "\n")
           /\ ws # {}
           /\ r > k
           /\ e > r
           /\ ~IsWord(CharAt(t, e))
        THEN SubSeq(t, i, eol - 1)
        ELSE <<>>

\* sec_m.group(0).strip() if sec_m else None
SectionOf(t) ==
    LET hits == {i \in DOMAIN t : SectionAt(t, i) # <<>>}
    IN  IF hits = {} THEN <<>> ELSE Strip(SectionAt(t, Min(hits)))

\* the chunk literals of lines 152-162 and 190-200
Chunk(chunk_id, doc_id, page_start, page_end, text, article, section) ==
    [chunk_id |-> chunk_id, doc_id |-> doc_id, page_start |-> page_start,
     page_end |-> page_end, text |-> text, article |-> article, section |-> section]

DEFAULT_CHUNK_TOKENS == 950

DEFAULT_OVERLAP_TOKENS == 180

MIN_CHUNK_CHARS == 200

MIN_STEP_CHARS == 50

CHARS_PER_TOKEN == 4

S_art == <<"_", "_", "a", "r", "t", "_">>

S_chunk == <<"_", "_", "c", "h", "u", "n", "k", "_", "_">>

\* Mode A, lines 131-163: one chunk per header match
ModeA(doc_id, norm_pages, full, matches) ==
    [idx \in DOMAIN matches |->
        LET start     == matches[idx].start
            end       == IF idx + 1 <= Len(matches) THEN matches[idx + 1].start
                         ELSE Len(full) + 1
            block     == SubSeq(full, start, end - 1)
            page_nums == PageNums(block)
            p1        == IF page_nums # {} THEN Min(page_nums) ELSE norm_pages[1][1]
            p2        == IF page_nums # {} THEN Max(page_nums)
                         ELSE norm_pages[Len(norm_pages)][1]
            art_num   == matches[idx].art
        IN  Chunk(doc_id \o S_art \o art_num \o <<"_", "_">> \o Pad4(idx - 1),
                  doc_id, p1, p2, Strip(StripMarkersFrom(block, 1)), art_num, <<>>)]

\* the loop of Mode B, lines 183-203; i is the 0-based offset of the window
RECURSIVE Windows(_, _, _, _, _, _, _, _, _)
Windows(doc_id, text_all, section, chunk_chars, step_chars, p1, p2, i, idx) ==
    IF i >= Len(text_all) THEN <<>>
    ELSE LET last  == IF i + chunk_chars < Len(text_all) THEN i + chunk_chars
                      ELSE Len(text_all)
             block == Strip(SubSeq(text_all, i + 1, last))
         IN  IF block = <<>> THEN <<>>
             ELSE <<Chunk(doc_id \o S_chunk \o Pad4(idx), doc_id, p1, p2, block, <<>>,
                          section)>>
                  \o Windows(doc_id, text_all, section, chunk_chars, step_chars, p1, p2,
                             i + step_chars, idx + 1)

\* variant: the page range of the windows is (last page, first page)
ModeB_pages_swapped(doc_id, norm_pages, chunk_tokens, overlap_tokens) ==
    LET text_all    == Strip(Join([j \in DOMAIN norm_pages |-> norm_pages[j][2]],
                                  <<"\n", "\n">>))
        chunk_chars == Max({MIN_CHUNK_CHARS, chunk_tokens * CHARS_PER_TOKEN})
        step_tokens == Max({1, chunk_tokens - overlap_tokens})
        step_chars  == Max({MIN_STEP_CHARS, step_tokens * CHARS_PER_TOKEN})
    IN  IF text_all = <<>> THEN <<>>
        ELSE Windows(doc_id, text_all, SectionOf(text_all), chunk_chars, step_chars,
                     norm_pages[Len(norm_pages)][1], norm_pages[1][1], 0, 0)

\* text_all, line 167
TextAll(norm_pages) ==
    Strip(Join([j \in DOMAIN norm_pages |-> norm_pages[j][2]], <<"\n", "\n">>))

\* chunk_chars, line 175
ChunkChars(chunk_tokens) == Max({MIN_CHUNK_CHARS, chunk_tokens * CHARS_PER_TOKEN})

\* step_chars, lines 176-177
StepChars(chunk_tokens, overlap_tokens) ==
    Max({MIN_STEP_CHARS, Max({1, chunk_tokens - overlap_tokens}) * CHARS_PER_TOKEN})

\* Mode B, lines 168-205
ModeB(doc_id, norm_pages, chunk_tokens, overlap_tokens) ==
    LET text_all    == TextAll(norm_pages)
        chunk_chars == ChunkChars(chunk_tokens)
        step_chars  == StepChars(chunk_tokens, overlap_tokens)
    IN  IF text_all = <<>> THEN <<>>
        ELSE Windows(doc_id, text_all, SectionOf(text_all), chunk_chars, step_chars,
                     norm_pages[1][1], norm_pages[Len(norm_pages)][1], 0, 0)

\* full, line 116
FullOf(norm_pages) ==
    Join([j \in DOMAIN norm_pages |-> PageBlock(norm_pages[j][1], norm_pages[j][2])],
         <<"\n", "\n">>)

\* norm_pages, line 113
NormPages(ps) == [j \in DOMAIN ps |-> <<ps[j][1], normalize_legal_text(ps[j][2])>>]

\* matches, line 118 (no match is looked for when line 110 returns)
Matches(ps) == IF ps = <<>> THEN <<>> ELSE ArticleMatchesFrom(FullOf(NormPages(ps)), 1)

\* variant: Mode A does not return, the windows of Mode B follow its chunks
chunk_pages_fall_through(doc_id, ps, chunk_tokens, overlap_tokens) ==
    IF ps = <<>> THEN <<>>
    ELSE LET norm_pages == NormPages(ps)
             full       == FullOf(norm_pages)
             matches    == ArticleMatchesFrom(full, 1)
         IN  (IF Len(matches) >= 1 THEN ModeA(doc_id, norm_pages, full, matches) ELSE <<>>)
             \o ModeB(doc_id, norm_pages, chunk_tokens, overlap_tokens)

chunk_pages_legal_aware(doc_id, ps, chunk_tokens, overlap_tokens) ==
    IF ps = <<>> THEN <<>>
    ELSE LET norm_pages == NormPages(ps)
             full       == FullOf(norm_pages)
             matches    == Matches(ps)
         IN  IF Len(matches) >= 1
             THEN ModeA(doc_id, norm_pages, full, matches)
             ELSE ModeB(doc_id, norm_pages, chunk_tokens, overlap_tokens)

-----------------------------------------------------------------------------
(***************************************************************************)
(* The indexes and queries the model explores                              *)
(***************************************************************************)
\* the largest number of chunks in the collection
MaxChunks == 2

\* the scores the collaborators report for a chunk (similarity, BM25)
Levels == 0..1

\* the PDFs of the corpus; the name of the second one alone marks it as a statute
PdfFiles == << <<"d", "1", ".", "p", "d", "f">>, <<"l", "e", "y", "2", ".", "p", "d", "f">> >>

S_lgs == <<"l", "g", "s">>

S_27349 == <<"2", "7", "3", "4", "9">>

Articles == {<<"5">>, <<"1", "3">>}

\* the manifest: none, or one row for the first PDF
ManifestRow(tipo, siglas, numero) ==
    [tipo_norma |-> tipo, siglas |-> siglas, numero |-> numero,
     source_file |-> PdfFiles[1], normalized_file |-> PdfFiles[1], detalle |-> <<>>]

Manifests ==
    {<<>>} \cup {<<ManifestRow(t, g, n)>> :
                    t \in {<<>>, S_ley}, g \in {<<>>, S_lgs}, n \in {<<>>, S_27349}}

\* the text of a chunk: an article chunk starts with its header (chunking.py,
\* Mode A); the second PDF names itself a statute in its text
ChunkText(doc, article) ==
    (IF article = <<>> THEN <<"t", "e", "x", "t", "o">>
     ELSE <<"A", "R", "T", ".", " ">> \o article \o <<".", "-">>)
    \o (IF doc = 2 THEN <<" ", "l", "e", "y">> ELSE <<>>)

\* the collection an ingestion of chunks (each [doc, article]) leaves, with the
\* chunk ids numbered in insertion order
CollectionOf(specs, rows) ==
    [i \in DOMAIN specs |->
        [id   |-> i,
         text |-> ChunkText(specs[i].doc, specs[i].article),
         meta |-> ChunkMeta(PdfFiles[specs[i].doc], NormaMeta(PdfFiles[specs[i].doc], rows),
                            1, 1, specs[i].article)]]

ChunkSpecs == [doc : DOMAIN PdfFiles, article : Articles \cup {<<>>}]

Collections(rows) ==
    {CollectionOf(specs, rows) : specs \in UNION {[1..n -> ChunkSpecs] : n \in 1..MaxChunks}}

Q_art13_lgs == <<"a", "r", "t", " ", "1", "3", " ", "l", "g", "s">>

Q_ley27349_art5 ==
    <<"q", "u", "e'", " ", "d", "i", "c", "e", " ", "l", "a", " ", "l", "e", "y", " ",
      "2", "7", ".", "3", "4", "9", " ", "s", "o", "b", "r", "e", " ", "e", "l", " ",
      "a", "r", "t", "i'", "c", "u", "l", "o", " ", "5">>

Q_art5 == <<"a", "r", "t", "i", "c", "u", "l", "o", " ", "5">>

Q_lgs == <<"L", "G", "S">>

Q_plain == <<"s", "o", "c", "i", "e", "d", "a", "d", "e", "s">>

Q_empty == <<>>

Queries == {Q_art13_lgs, Q_ley27349_art5, Q_art5, Q_lgs, Q_plain, Q_empty}

\* the sequences that enumerate the set S once each
Orders(S) == {o \in [1..Cardinality(S) -> S] : \A i, j \in DOMAIN o : o[i] = o[j] => i = j}

-----------------------------------------------------------------------------
(***************************************************************************)
(* Specification of the retriever                                          *)
(***************************************************************************)
\* the locals of a call that did not reach the lexical stage
NoLocals == [pool |-> <<>>, b_ids |-> <<>>]

\* cand_ids (line 385) and b_ids (lines 405-412)
LexLocals(intent, bsc) ==
    [pool  |-> [j \in DOMAIN Bm25Pool(bsc) |-> Bm25Pool(bsc)[j][1]],
     b_ids |-> [j \in DOMAIN Bm25Chosen(intent, bsc) |-> Bm25Chosen(intent, bsc)[j][1]]]

\* lines 420-512 for the iteration order o of the set candidates
HybridReturn(intent, results) == Take(HardBoost(Rank(results), intent), TOPK_FINAL)

\* ingest.main is not run
IngestIdle ==
    /\ ing_collection = <<>>
    /\ ing_bm25_ids = <<>>
    /\ ing_id_to_meta = <<>>
    /\ ing_run = <<>>
    /\ ing_status = "none"
    /\ ing_runs = 0

\* the merge loop is not run on its own
FuseIdle ==
    /\ w_vector = W_VECTOR
    /\ w_bm25 = W_BM25
    /\ f_cands = <<>>
    /\ f_done = FALSE
    /\ f_results = <<>>

\* no call of parse_query on its own is under way
ParseIdle ==
    /\ p_text = <<>>
    /\ p_alias_index = <<>>
    /\ p_done = FALSE
    /\ p_explicit = [tipo_norma |-> <<>>, siglas |-> <<>>, numero |-> <<>>]
    /\ p_alias = [tipo_norma |-> <<>>, siglas |-> <<>>, numero |-> <<>>]
    /\ p_intent = parse_query(<<>>, <<>>)

Init ==
    /\ manifest \in Manifests
    /\ files_exist \in BOOLEAN
    /\ collection \in (IF files_exist THEN Collections(manifest) ELSE {<<>>})
    /\ bm25_file_ids = [i \in DOMAIN collection |-> collection[i].id]
    /\ r_status = "none"
    /\ r_bm25_ids = <<>>
    /\ r_id_to_meta = <<>>
    /\ r_alias_index = <<>>
    /\ query = <<>>
    /\ q_intent = parse_query(<<>>, <<>>)
    /\ down = "none"
    /\ outcome = "none"
    /\ result = <<>>
    /\ trace = {}
    /\ merged = <<>>
    /\ locals = NoLocals
    /\ returns = {}
    /\ pages = <<>>
    /\ c_tokens = DEFAULT_CHUNK_TOKENS
    /\ c_done = FALSE
    /\ c_matches = <<>>
    /\ chunks = <<>>
    /\ ParseIdle
    /\ FuseIdle
    /\ IngestIdle

\* HybridRetriever.__init__ : open(BM25_PATH) and open(META_PATH) raise when the
\* files are missing; the manifest is optional
Construct ==
    /\ r_status = "none"
    /\ IF files_exist
       THEN /\ r_status' = "ok"
            /\ r_bm25_ids' = bm25_file_ids
            /\ r_id_to_meta' = [i \in DOMAIN collection |->
                                   <<collection[i].id, collection[i].meta>>]
            /\ r_alias_index' = build_alias_index(load_manifest_map(manifest))
       ELSE /\ r_status' = "failed"
            /\ UNCHANGED <<r_bm25_ids, r_id_to_meta, r_alias_index>>
    /\ UNCHANGED <<files_exist, manifest, collection, bm25_file_ids,
                   query, q_intent, down, outcome, result, trace, merged, locals, returns,
                   chunkVars, parseVars, fuseVars, ingestVars>>

\* what one call of retrieve does once line 312 has parsed the query into intent:
\* [outcome, result, trace, merged, locals, returns].  fail names the backend that is unreachable during
\* the call, sim and bsc are the scores the backends report, order is the
\* iteration order of the set candidates.
retrieve(intent, fail, sim, bsc, order) ==
    LET looked == IF HasArticle(intent) /\ HasAnchor(intent) THEN {"exact_lookup"} ELSE {}
        raised(stages) ==
            [outcome |-> "raised", result |-> <<>>, trace |-> looked \cup stages,
             merged |-> <<>>, locals |-> NoLocals, returns |-> {}]
        \* lines 441-512, with out the sorted list of line 467
        ranked(inputs, lex, cands, cand_order, results, out) ==
            [outcome |-> "returned",
             result  |-> Take(HardBoost(out, intent), TOPK_FINAL),
             trace   |-> looked
                         \cup {"vector_query", "bm25_scores", "merge", "dedup", "ley_bonus"}
                         \cup (IF HasArticle(intent) /\ Forced(out, intent) = <<>>
                               THEN {"force_lookup"} ELSE {}),
             merged  |-> results,
             locals  |-> lex,
             returns |-> {HybridReturn(intent, Reorder(results, p)) :
                             p \in Orders(DOMAIN results)}]
        merge(inputs, lex, cands, cand_order, results) ==
            ranked(inputs, lex, cands, cand_order, results, Rank(results))
        ordered(inputs, lex, cands, cand_order) ==
            merge(inputs, lex, cands, cand_order, MergeFrom(cand_order, inputs))
        inputs(vector_map, bm25_map, lex, cands, cand_order) ==
            ordered(<<>> \o [i \in DOMAIN cand_order |->
                                MergeInputs(cand_order[i], vector_map, bm25_map, intent)],
                    lex, cands, cand_order)
        hybrid(vector_map, bm25_map, lex, cands) ==
            IF MergeRaises(vector_map, bm25_map)
            THEN raised({"vector_query", "bm25_scores", "merge"})
            ELSE inputs(vector_map, bm25_map, lex, cands,
                        SelectSeq(order, LAMBDA cid : cid \in cands))
        stages23(vector_map, bm25_map, lex) ==
            hybrid(vector_map, bm25_map, lex, Candidates(vector_map, bm25_map))
        exact_return(exact_out) ==
            [outcome |-> "returned", result |-> exact_out, trace |-> looked,
             merged |-> <<>>, locals |-> NoLocals, returns |-> {exact_out}]
        stage0(exact) ==
            IF exact # <<>>
            THEN exact_return(Take(AsResults(exact, EXACT_SCORE, "exact_metadata"), TOPK_FINAL))
            ELSE IF fail = "vector" THEN raised({"vector_query"})
            ELSE IF fail = "lexical" THEN raised({"vector_query", "bm25_scores"})
            ELSE stages23(VectorMap(intent, sim), Bm25Map(intent, bsc), LexLocals(intent, bsc))
    IN  stage0(ExactLookup(intent))

Retrieve ==
    /\ r_status = "ok"
    /\ outcome = "none"
    /\ \E q \in Queries :
          \E intent \in {parse_query(q, r_alias_index)},
             fail \in {"none", "vector", "lexical"},
             sim \in [DOMAIN collection -> Levels],
             bsc \in [DOMAIN r_bm25_ids -> Levels],
             order \in Orders({collection[i].id : i \in DOMAIN collection}
                              \cup Range(r_bm25_ids)) :
          \E r \in {retrieve(intent, fail, sim, bsc, order)} :
              /\ query' = q
              /\ q_intent' = intent
              /\ down' = fail
              /\ outcome' = r.outcome
              /\ result' = r.result
              /\ trace' = r.trace
              /\ merged' = r.merged
              /\ locals' = r.locals
              /\ returns' = r.returns
    /\ UNCHANGED <<files_exist, manifest, collection, bm25_file_ids,
                   r_status, r_bm25_ids, r_id_to_meta, r_alias_index,
                   chunkVars, parseVars, fuseVars, ingestVars>>

\* the caller is done with the returned sequence (app.py, lines 93-147): the next
\* query starts a new call
Answer ==
    /\ outcome # "none"
    /\ query' = <<>>
    /\ q_intent' = parse_query(<<>>, <<>>)
    /\ down' = "none"
    /\ outcome' = "none"
    /\ result' = <<>>
    /\ trace' = {}
    /\ merged' = <<>>
    /\ locals' = NoLocals
    /\ returns' = {}
    /\ UNCHANGED <<files_exist, manifest, collection, bm25_file_ids,
                   r_status, r_bm25_ids, r_id_to_meta, r_alias_index,
                   chunkVars, parseVars, fuseVars, ingestVars>>

Next == Construct \/ Retrieve \/ Answer

Spec == Init /\ [][Next]_vars

-----------------------------------------------------------------------------
(***************************************************************************)
(* Specification of the segmenter: chunk_pages_legal_aware applied to the  *)
(* documents the model explores                                            *)
(***************************************************************************)
\* the largest number of pages of a document
MaxPages == 3

\* the largest number of pieces a page text is made of
MaxPieces == 2

\* the length of the long run of text among the pieces
LongLen == 50

\* a chunk_tokens small enough for the window to be the minimum one
SmallChunkTokens == 10

\* the doc_id of the document
DocId == <<"d">>

P_h1 == <<"A", "R", "T", "I", "C", "U", "L", "O", " ", "1", ".", " ", "em">>

P_h2 == <<"A", "R", "T", "I", "C", "U", "L", "O", " ", "2", ".", " ", "em">>

P_body == <<" ", "u", "n", "o">>

P_nl == <<"\n">>

\* a reference inside a sentence, followed by a dash
P_ref_dash == <<" ", "a", "r", "t", " ", "3", " ", "-", " ">>

\* a reference inside a sentence
P_ref == <<"e", "l", " ", "a", "r", "t", ".", " ", "4", " ", "d", "i", "c", "e">>

P_long == [i \in 1..LongLen |-> "x"]

Pieces == <<P_h1, P_h2, P_body, P_nl, P_ref_dash, P_ref, P_long>>

\* the page texts of up to m pieces in a row
Texts(m) ==
    {Join([i \in DOMAIN ps |-> Pieces[ps[i]]], <<>>) :
        ps \in UNION {[1..k -> DOMAIN Pieces] : k \in 0..m}}

\* a run of blanks as long as the smallest window and the smallest step together
P_blank == [i \in 1..(MIN_CHUNK_CHARS + MIN_STEP_CHARS) |-> " "]

\* documents with a run of blanks inside a page, at its end, and with a page of
\* blanks between two pages of text
BlankPageLists ==
    {<< <<1, P_long \o P_blank \o P_long>> >>,
     << <<1, P_long \o P_blank>>, <<2, P_long>> >>,
     << <<1, P_long>>, <<2, P_blank>>, <<3, P_long>> >>}

\* the documents: up to MaxPages pages, the n pages numbered 1..n in any order;
\* a page holds up to MaxPieces pieces, one piece in the longest documents
PageLists ==
    UNION {{[i \in 1..n |-> <<nums[i], texts[i]>>] :
               nums \in {f \in [1..n -> 1..n] :
                            \A i, j \in 1..n : f[i] = f[j] => i = j},
               texts \in [1..n -> Texts(IF n < MaxPages THEN MaxPieces ELSE 1)]} :
           n \in 0..MaxPages}

InitChunk ==
    /\ files_exist = FALSE
    /\ manifest = <<>>
    /\ collection = <<>>
    /\ bm25_file_ids = <<>>
    /\ r_status = "none"
    /\ r_bm25_ids = <<>>
    /\ r_id_to_meta = <<>>
    /\ r_alias_index = <<>>
    /\ query = <<>>
    /\ q_intent = parse_query(<<>>, <<>>)
    /\ down = "none"
    /\ outcome = "none"
    /\ result = <<>>
    /\ trace = {}
    /\ merged = <<>>
    /\ locals = NoLocals
    /\ returns = {}
    /\ pages \in PageLists \cup BlankPageLists
    /\ c_tokens \in {DEFAULT_CHUNK_TOKENS, SmallChunkTokens}
    /\ c_done = FALSE
    /\ c_matches = <<>>
    /\ chunks = <<>>
    /\ ParseIdle
    /\ FuseIdle
    /\ IngestIdle

\* one call of chunk_pages_legal_aware, as ingest.main makes it (lines 183-188)
ChunkPages ==
    /\ ~c_done
    /\ chunks' = chunk_pages_legal_aware(DocId, pages, c_tokens, DEFAULT_OVERLAP_TOKENS)
    /\ c_matches' = Matches(pages)
    /\ c_done' = TRUE
    /\ UNCHANGED <<retrieverVars, pages, c_tokens, parseVars, fuseVars, ingestVars>>

NextChunk == ChunkPages

SpecChunk == InitChunk /\ [][NextChunk]_vars

-----------------------------------------------------------------------------
(***************************************************************************)
(* Specification of the parser: parse_query applied to the query texts and *)
(* alias indexes the model explores                                        *)
(***************************************************************************)
\* the largest number of words of a query text
MaxWords == 3

W_ley == <<"l", "e", "y">>

W_decreto == <<"D", "e", "c", "r", "e", "t", "o">>

N_dotted == <<"2", "7", ".", "3", "4", "9">>

N_fraction == <<"1", "5", "-", "2", "4">>

N_bare == <<"1", "9", "5", "5", "0">>

W_sas == <<"s", "a", "s">>

W_art5 == <<"a", "r", "t", " ", "5">>

\* the stem of the first PDF, an alias of its manifest row
W_d1 == <<"d", "1">>

Words == <<W_ley, W_decreto, N_dotted, N_fraction, N_bare, W_sas, W_art5, W_d1>>

\* the query texts: up to MaxWords words, one space between two words
QueryTexts ==
    {Join([i \in DOMAIN ws |-> Words[ws[i]]], <<" ">>) :
        ws \in UNION {[1..k -> DOMAIN Words] : k \in 0..MaxWords}}

InitParse ==
    /\ files_exist = FALSE
    /\ manifest = <<>>
    /\ collection = <<>>
    /\ bm25_file_ids = <<>>
    /\ r_status = "none"
    /\ r_bm25_ids = <<>>
    /\ r_id_to_meta = <<>>
    /\ r_alias_index = <<>>
    /\ query = <<>>
    /\ q_intent = parse_query(<<>>, <<>>)
    /\ down = "none"
    /\ outcome = "none"
    /\ result = <<>>
    /\ trace = {}
    /\ merged = <<>>
    /\ locals = NoLocals
    /\ returns = {}
    /\ pages = <<>>
    /\ c_tokens = DEFAULT_CHUNK_TOKENS
    /\ c_done = FALSE
    /\ c_matches = <<>>
    /\ chunks = <<>>
    /\ p_text \in QueryTexts
    /\ p_alias_index \in {build_alias_index(load_manifest_map(m)) : m \in Manifests}
    /\ p_done = FALSE
    /\ p_explicit = [tipo_norma |-> <<>>, siglas |-> <<>>, numero |-> <<>>]
    /\ p_alias = [tipo_norma |-> <<>>, siglas |-> <<>>, numero |-> <<>>]
    /\ p_intent = parse_query(<<>>, <<>>)
    /\ FuseIdle
    /\ IngestIdle

\* one call of parse_query (retrieve.py, lines 187-228), with its locals
ParseQuery ==
    /\ ~p_done
    /\ p_explicit' = [tipo_norma |-> _extract_tipo_norma(Lower(p_text)),
                      siglas     |-> ExplicitSiglas(Lower(p_text)),
                      numero     |-> _extract_numero_generic(Lower(p_text))]
    /\ p_alias' = resolve_alias_anchors(p_text, p_alias_index)
    /\ p_intent' = parse_query(p_text, p_alias_index)
    /\ p_done' = TRUE
    /\ UNCHANGED <<retrieverVars, chunkVars, p_text, p_alias_index, fuseVars, ingestVars>>

NextParse == ParseQuery

SpecParse == InitParse /\ [][NextParse]_vars

-----------------------------------------------------------------------------
(***************************************************************************)
(* Specification of the merge loop under a configuration (retrieve.py,     *)
(* lines 420-439; config.py, lines 47-48)                                  *)
(***************************************************************************)
\* config.py reads the weights from the environment and accepts every float:
\* the defaults, a weight of zero and a negative weight
VectorWeights == {W_VECTOR, 0, 0 - W_VECTOR}

Bm25Weights == {W_BM25, 0}

\* v, b and the keyword bonus of a candidate; text and meta play no part in the score
FuseInputs ==
    [v : {0, NORM_ONE \div 2, NORM_ONE}, b : {0, NORM_ONE}, text : {<<>>}, meta : {<<>>},
     bonus : {0, BONUS_NUMERO}]

InitFuse ==
    /\ files_exist = FALSE
    /\ manifest = <<>>
    /\ collection = <<>>
    /\ bm25_file_ids = <<>>
    /\ r_status = "none"
    /\ r_bm25_ids = <<>>
    /\ r_id_to_meta = <<>>
    /\ r_alias_index = <<>>
    /\ query = <<>>
    /\ q_intent = parse_query(<<>>, <<>>)
    /\ down = "none"
    /\ outcome = "none"
    /\ result = <<>>
    /\ trace = {}
    /\ merged = <<>>
    /\ locals = NoLocals
    /\ returns = {}
    /\ pages = <<>>
    /\ c_tokens = DEFAULT_CHUNK_TOKENS
    /\ c_done = FALSE
    /\ c_matches = <<>>
    /\ chunks = <<>>
    /\ ParseIdle
    /\ w_vector \in VectorWeights
    /\ w_bm25 \in Bm25Weights
    /\ f_cands \in [1..2 -> FuseInputs]
    /\ f_done = FALSE
    /\ f_results = <<>>
    /\ IngestIdle

\* the loop of lines 424-439 over the candidates f_cands
MergeLoop ==
    /\ ~f_done
    /\ f_results' = [i \in DOMAIN f_cands |-> FuseWith(w_vector, w_bm25, i, f_cands[i])]
    /\ f_done' = TRUE
    /\ UNCHANGED <<retrieverVars, chunkVars, parseVars, w_vector, w_bm25, f_cands, ingestVars>>

NextFuse == MergeLoop

SpecFuse == InitFuse /\ [][NextFuse]_vars

-----------------------------------------------------------------------------
(***************************************************************************)
(* Specification of the ingestion (ingest.py, main, lines 130-255)         *)
(***************************************************************************)
\* the largest number of runs of main after the first
MaxRuns == 2

\* the manifests a run may find: none, a row for the first PDF, the row edited
RunManifests ==
    {<<>>, <<ManifestRow(S_ley, S_lgs, S_27349)>>, <<ManifestRow(<<>>, S_lgs, <<>>)>>}

\* the PDFs a run may find in the directory (line 151; none makes main raise at
\* line 153 before it touches the store), as indexes of PdfFiles in sorted order
RunPdfs == {<<1>>, <<2>>, <<1, 2>>}

\* lines 174-220 for PDFs of one page without article header: one chunk of Mode B
\* per PDF, with the id of chunking.py line 190
RunChunks(pdfs, rows) ==
    [i \in DOMAIN pdfs |->
        [id   |-> infer_doc_id(PdfFiles[pdfs[i]]) \o S_chunk \o Pad4(0),
         text |-> ChunkText(pdfs[i], <<>>),
         meta |-> ChunkMeta(PdfFiles[pdfs[i]], NormaMeta(PdfFiles[pdfs[i]], rows),
                            1, 1, <<>>)]]

IdsOf(records) == [i \in DOMAIN records |-> records[i].id]

\* id_to_meta of line 245
IdToMeta(records) == PutAll(<<>>, [i \in DOMAIN records |-> <<records[i].id, records[i].meta>>])

\* lines 164-170: collection.get() and collection.delete(ids) inside
\* try/except Exception: pass; fault names the call that raises
Cleared(coll, fault) == IF fault \in {"get", "delete"} THEN coll ELSE <<>>

\* the store after a first, undisturbed run
InitIngest ==
    /\ files_exist = FALSE
    /\ manifest = <<>>
    /\ collection = <<>>
    /\ bm25_file_ids = <<>>
    /\ r_status = "none"
    /\ r_bm25_ids = <<>>
    /\ r_id_to_meta = <<>>
    /\ r_alias_index = <<>>
    /\ query = <<>>
    /\ q_intent = parse_query(<<>>, <<>>)
    /\ down = "none"
    /\ outcome = "none"
    /\ result = <<>>
    /\ trace = {}
    /\ merged = <<>>
    /\ locals = NoLocals
    /\ returns = {}
    /\ pages = <<>>
    /\ c_tokens = DEFAULT_CHUNK_TOKENS
    /\ c_done = FALSE
    /\ c_matches = <<>>
    /\ chunks = <<>>
    /\ ParseIdle
    /\ FuseIdle
    /\ \E pdfs \in RunPdfs, rows \in RunManifests :
          /\ ing_collection = RunChunks(pdfs, rows)
          /\ ing_bm25_ids = IdsOf(RunChunks(pdfs, rows))
          /\ ing_id_to_meta = IdToMeta(RunChunks(pdfs, rows))
    /\ ing_run = <<>>
    /\ ing_status = "none"
    /\ ing_runs = 0

\* the calls of main that may raise: none, collection.get (line 166),
\* collection.delete (line 168), extract_pdf_pages (line 175), the embedding
\* service (line 229), collection.add (line 233), open of bm25.pkl (line 242) and
\* open of meta.pkl (line 246)
IngestFaults == {"none", "get", "delete", "extract", "embed", "add", "bm25_file", "meta_file"}

\* collection.add(ids=...) of line 233 on the collection kept: the records of run
\* whose id the collection does not hold yet are appended
Added(kept, run) ==
    kept \o SelectSeq(run, LAMBDA c : \A j \in DOMAIN kept : kept[j].id # c.id)

\* one run of main over the PDFs pdfs with the manifest rows.  fault is the call
\* that raises.  dup is what collection.add does with an id the collection
\* already holds, which depends on the installed chromadb (no version is pinned):
\* it raises, or it leaves the stored record.
IngestMain ==
    /\ ing_runs < MaxRuns
    /\ ing_runs' = ing_runs + 1
    /\ \E pdfs \in RunPdfs, rows \in RunManifests,
          fault \in IngestFaults, dup \in {"raise", "keep"} :
          \E run \in {RunChunks(pdfs, rows)}, kept \in {Cleared(ing_collection, fault)} :
             /\ ing_run' = run
             /\ IF \/ fault \in {"extract", "embed", "add"}
                   \/ (dup = "raise" /\ \E i \in DOMAIN run, j \in DOMAIN kept :
                                            run[i].id = kept[j].id)
                THEN /\ ing_status' = "raised"
                     /\ ing_collection' = kept
                     /\ UNCHANGED <<ing_bm25_ids, ing_id_to_meta>>
                ELSE /\ ing_collection' = Added(kept, run)
                     /\ ing_status' = IF fault \in {"bm25_file", "meta_file"}
                                      THEN "raised" ELSE "done"
                     /\ ing_bm25_ids' = IF fault = "bm25_file" THEN ing_bm25_ids
                                        ELSE IdsOf(run)
                     /\ ing_id_to_meta' = IF fault \in {"bm25_file", "meta_file"}
                                          THEN ing_id_to_meta ELSE IdToMeta(run)
    /\ UNCHANGED <<retrieverVars, chunkVars, parseVars, fuseVars>>

NextIngest == IngestMain

SpecIngest == InitIngest /\ [][NextIngest]_vars

\* the 1-based indexes of text_all that the window of the k-th chunk of Mode B
\* spans (line 185, with i = step_chars * (k - 1))
WindowOf(k) ==
    {p \in DOMAIN TextAll(NormPages(pages)) :
        /\ p > StepChars(c_tokens, DEFAULT_OVERLAP_TOKENS) * (k - 1)
        /\ p <= StepChars(c_tokens, DEFAULT_OVERLAP_TOKENS) * (k - 1) + ChunkChars(c_tokens)}

\* C21 as stated: in Mode B the window loop terminates and every non-whitespace
\* character of the concatenated text lies in at least one emitted chunk (no gap
\* between consecutive windows, no early stop that leaves later text unchunked).
C21_Claim ==
    (c_done /\ pages # <<>> /\ c_matches = <<>>)
       => \A p \in DOMAIN TextAll(NormPages(pages)) :
             ~IsSpace(TextAll(NormPages(pages))[p])
                => \E k \in DOMAIN chunks : p \in WindowOf(k)

-----------------------------------------------------------------------------
(***************************************************************************)
(* Properties of the ingestion                                             *)
(***************************************************************************)
\* C16 as stated: after any run of main over a store that holds the chunks of an
\* earlier run, the collection, the BM25 id list and the metadata map hold exactly
\* the chunks and metadata of the current run, also when reading or deleting the
\* previous content raised.
C16_Claim ==
    ing_status = "done"
       => /\ ing_collection = ing_run
          /\ ing_bm25_ids = IdsOf(ing_run)
          /\ ing_id_to_meta = IdToMeta(ing_run)

\* the ids of the chunk metadata map
MetaIds == {ing_id_to_meta[i][1] : i \in DOMAIN ing_id_to_meta}

\* C22 as stated: wherever a run of main stops, completed or aborted at
\* extraction, embedding, collection write or file write, the collection, the BM25
\* id list and the chunk metadata map hold the same set of chunk ids.
C22_Claim ==
    ing_status # "none"
       => /\ Range(IdsOf(ing_collection)) = Range(ing_bm25_ids)
          /\ Range(ing_bm25_ids) = MetaIds

-----------------------------------------------------------------------------
(***************************************************************************)
(* Properties of the fusion                                                *)
(***************************************************************************)
\* two merged candidates with the same lexical score and the same bonus, the
\* second with the larger vector score
SameButVector(i, j) ==
    /\ f_cands[i].b = f_cands[j].b
    /\ f_cands[i].bonus = f_cands[j].bonus
    /\ f_cands[i].v <= f_cands[j].v

\* C14 as stated: for any configured weights W_VECTOR and W_BM25 and any fixed
\* lexical score and bonuses, a larger normalized vector score never gives a
\* smaller fused score.
C14_Claim ==
    f_done => \A i, j \in DOMAIN f_cands :
                 SameButVector(i, j) => f_results[i].score <= f_results[j].score

\* C14, amended: the fused score is non-decreasing in the normalized vector score
\* for fixed lexical score and bonuses whenever the configured W_VECTOR is not
\* negative.
C14_FusionMonotone ==
    (f_done /\ w_vector >= 0)
       => \A i, j \in DOMAIN f_cands :
             SameButVector(i, j) => f_results[i].score <= f_results[j].score

\* two candidates that differ in the vector score only are fused under the
\* default weights, and the one with the larger vector score scores higher
C14_Witness ==
    /\ f_done
    /\ w_vector = W_VECTOR
    /\ w_bm25 = W_BM25
    /\ SameButVector(1, 2)
    /\ f_cands[1].v < f_cands[2].v
    /\ f_cands[1].b = NORM_ONE
    /\ f_results[1].score < f_results[2].score

-----------------------------------------------------------------------------
(***************************************************************************)
(* Properties of parse_query                                               *)
(***************************************************************************)

\* C13: each of tipo_norma, siglas and numero of the intent is the value the
\* query text itself yields when it yields one, whatever the alias index holds,
\* and the value of the alias only otherwise; articulo_nro comes from the text.
C13_ExplicitFirst ==
    p_done
       => /\ \A f \in {"tipo_norma", "siglas", "numero"} :
                p_intent[f] = IF p_explicit[f] # <<>> THEN p_explicit[f] ELSE p_alias[f]
          /\ p_intent.articulo_nro = _extract_articulo(Lower(p_text))

\* "Decreto d1" with the manifest row (ley, 27349) of d1: the type of the text
\* wins over the type of the alias, the number comes from the alias
C13_Witness ==
    /\ p_done
    /\ p_explicit.tipo_norma = Lower(W_decreto)
    /\ p_alias.tipo_norma = W_ley
    /\ p_intent.tipo_norma = Lower(W_decreto)
    /\ p_explicit.numero = <<>>
    /\ p_alias.numero = S_27349
    /\ p_intent.numero = S_27349

\* C18: the dotted form of the text wins wherever it stands, then the fraction
\* form, normalised to a/b, then the bare run of 4 to 6 digits; there is no
\* number only when the text holds none of the three.
C18_Priority ==
    p_done
       => LET dotted   == Contains(p_text, N_dotted)
              fraction == Contains(p_text, N_fraction)
              bare     == Contains(p_text, N_bare)
          IN  /\ dotted => p_explicit.numero = S_27349
              /\ (~dotted /\ fraction) => p_explicit.numero = <<"1", "5", "/", "2", "4">>
              /\ (~dotted /\ ~fraction /\ bare) => p_explicit.numero = N_bare
              /\ p_explicit.numero = <<>> <=> ~(dotted \/ fraction \/ bare)

\* the bare run first, the fraction next and the dotted form last in the text
C18_Witness ==
    /\ p_done
    /\ p_text = N_bare \o <<" ">> \o N_fraction \o <<" ">> \o N_dotted
    /\ p_explicit.numero = S_27349

-----------------------------------------------------------------------------
(***************************************************************************)
(* Properties of chunk_pages_legal_aware                                   *)
(***************************************************************************)

\* page 1 starts with the header of article 1, page 2 with the header of article 2
TwoPageScenario == << <<1, P_h1 \o P_body>>, <<2, P_h2 \o P_body>> >>

\* C5 as stated, on its two-page document: exactly two chunks, with the page
\* ranges (1,1) and (2,2), each holding the text of its own article only.
C5_Claim ==
    (c_done /\ pages = TwoPageScenario)
       => /\ Len(chunks) = 2
          /\ chunks[1].page_start = 1 /\ chunks[1].page_end = 1
          /\ chunks[2].page_start = 2 /\ chunks[2].page_end = 2
          /\ chunks[1].text = P_h1 \o P_body
          /\ chunks[2].text = P_h2 \o P_body

\* C6: the chunks of one call are all of one mode.  Without a header match in
\* the buffer every chunk has no article and an id doc_id__chunk__NNNN; with at
\* least one there is one chunk per match, each with the article of its match, an
\* id doc_id__art_N__NNNN and a text that starts at its header, so that the text
\* before the first header is in no chunk.
C6_OneMode ==
    c_done
       => /\ c_matches = <<>>
             => \A i \in DOMAIN chunks :
                   /\ chunks[i].article = <<>>
                   /\ chunks[i].chunk_id = DocId \o S_chunk \o Pad4(i - 1)
          /\ c_matches # <<>>
             => /\ Len(chunks) = Len(c_matches)
                /\ \A i \in DOMAIN chunks :
                      /\ chunks[i].article = c_matches[i].art
                      /\ chunks[i].article # <<>>
                      /\ chunks[i].chunk_id
                            = DocId \o S_art \o chunks[i].article \o <<"_", "_">> \o Pad4(i - 1)
                      /\ StartsWithCI(chunks[i].text, 1, <<"a", "r", "t">>)

\* a page of plain text before the page that starts with the first header: one
\* chunk, the article's
C6_Witness ==
    /\ c_done
    /\ Len(pages) = 2
    /\ pages[1][2] = P_body \o P_long
    /\ pages[2][2] = P_h1 \o P_body
    /\ Len(chunks) = 1
    /\ chunks[1].article = <<"1">>
    /\ chunks[1].text = P_h1 \o P_body

\* C7 as stated: every chunk of every call has page_start <= page_end and a
\* non-empty text.
C7_Claim ==
    c_done
       => \A i \in DOMAIN chunks :
             chunks[i].page_start <= chunks[i].page_end /\ chunks[i].text # <<>>

\* C7 amended: every chunk has a non-empty text, and page_start <= page_end when
\* the first page number of the argument is not greater than the last.
C7_PageOrder ==
    c_done
       => \A i \in DOMAIN chunks :
             /\ chunks[i].text # <<>>
             /\ pages[1][1] <= pages[Len(pages)][1]
                   => chunks[i].page_start <= chunks[i].page_end

\* two windows over two pages in increasing order
C7_Witness ==
    /\ c_done
    /\ Len(pages) = 2
    /\ pages[1][1] < pages[2][1]
    /\ Len(chunks) = 2
    /\ chunks[2].article = <<>>
    /\ chunks[2].page_start = pages[1][1]
    /\ chunks[2].page_end = pages[2][1]

\* the articles that the pieces P_ref_dash and P_ref refer to inside a sentence,
\* with a lower-case keyword
ReferredArticles == {<<"3">>, <<"4">>}

\* C11 as stated: a reference inside a sentence never becomes a chunk boundary,
\* so no chunk is the chunk of a referred article, and a header in capitals at
\* the start of a page always becomes one, so some chunk is its article's.
C11_Claim ==
    c_done
       => /\ \A i \in DOMAIN chunks : chunks[i].article \notin ReferredArticles
          /\ \A j \in DOMAIN pages :
                StartsWithAt(pages[j][2], 1, P_h1)
                   => \E i \in DOMAIN chunks : chunks[i].article = <<"1">>

-----------------------------------------------------------------------------
(***************************************************************************)
(* Properties of HybridRetriever.retrieve                                  *)
(***************************************************************************)

\* the ids of the chunks whose metadata equals the article of the intent and
\* every anchor the intent carries
AnchoredHits ==
    {collection[i].id : i \in
        {j \in DOMAIN collection :
            /\ collection[j].meta.articulo_nro = q_intent.articulo_nro
            /\ \A k \in DOMAIN AnchorKeys :
                  q_intent[AnchorKeys[k]] # <<>>
                     => collection[j].meta[AnchorKeys[k]] = q_intent[AnchorKeys[k]]}}

\* C1: when the intent carries an article number and at least one other anchor
\* and the metadata lookup on all present fields finds a chunk, the returned
\* sequence holds only chunks of that lookup, each with score 2.0 and match type
\* exact_metadata, and no stage after the lookup is executed.
C1_ExactShortCircuit ==
    (outcome # "none" /\ HasArticle(q_intent) /\ HasAnchor(q_intent) /\ AnchoredHits # {})
       => /\ outcome = "returned"
          /\ result # <<>>
          /\ \A i \in DOMAIN result :
                /\ result[i].chunk_id \in AnchoredHits
                /\ result[i].score = EXACT_SCORE
                /\ result[i].match_type = "exact_metadata"
          /\ trace = {"exact_lookup"}

\* an exact-match return that leaves a chunk of the index out, while the vector
\* backend is unreachable
C1_Witness ==
    /\ outcome = "returned"
    /\ down = "vector"
    /\ HasArticle(q_intent) /\ HasAnchor(q_intent)
    /\ Cardinality(AnchoredHits) = 1
    /\ Len(collection) = 2
    /\ Len(result) = 1

\* the chunks that carry article a and acronym s
ArticleAcronymHits(a, s) ==
    {collection[i].id : i \in
        {j \in DOMAIN collection :
            collection[j].meta.articulo_nro = a /\ collection[j].meta.siglas = s}}

\* C2 as stated: a query naming article 13 and the acronym lgs gets a chunk with
\* articulo_nro 13 and siglas lgs as its first result whenever the corpus holds
\* one, whatever other anchors the parser or the alias table add (no backend is
\* down during the call).
C2_Claim ==
    (/\ query = Q_art13_lgs
     /\ outcome # "none"
     /\ down = "none"
     /\ ArticleAcronymHits(<<"1", "3">>, S_lgs) # {})
       => /\ outcome = "returned"
          /\ result # <<>>
          /\ result[1].chunk_id \in ArticleAcronymHits(<<"1", "3">>, S_lgs)

\* C2 amended: when the intent carries an article and an acronym and some chunk's
\* metadata equals the article, the acronym and every other anchor of the intent,
\* the first element of the returned sequence is such a chunk, whatever the
\* scores the backends report.
C2_ForcedFirst ==
    (/\ outcome # "none"
     /\ q_intent.articulo_nro # <<>>
     /\ q_intent.siglas # <<>>
     /\ AnchoredHits # {})
       => /\ outcome = "returned"
          /\ result # <<>>
          /\ result[1].chunk_id \in AnchoredHits
          /\ result[1].meta.articulo_nro = q_intent.articulo_nro
          /\ result[1].meta.siglas = q_intent.siglas

\* article 13 plus lgs answered with the one matching chunk of a two-chunk index
C2_Witness ==
    /\ query = Q_art13_lgs
    /\ outcome = "returned"
    /\ Len(collection) = 2
    /\ AnchoredHits = {2}
    /\ result[1].chunk_id = 2

\* the indices of the results the hybrid path ranked
HybridResults ==
    {i \in DOMAIN result : result[i].match_type \in {"hybrid", "hybrid+ley_bonus"}}

\* C3 as stated: on every return path no two results share the composite key
\* (siglas, tipo_norma, numero, articulo_nro, page_start, page_end).
C3_Claim ==
    outcome = "returned"
       => \A i, j \in DOMAIN result :
             i # j => DedupKey(result[i].meta) # DedupKey(result[j].meta)

\* C3 amended: the results of the hybrid path (match type hybrid or
\* hybrid+ley_bonus) never share the composite key, and each of them is the merged
\* candidate of its key with the highest fused score (the score before the
\* statute bonus).
C3_DedupHybrid ==
    outcome = "returned"
       => /\ \A i, j \in HybridResults :
                i # j => DedupKey(result[i].meta) # DedupKey(result[j].meta)
          /\ \A i \in HybridResults :
                \E m \in DOMAIN merged :
                   /\ merged[m].chunk_id = result[i].chunk_id
                   /\ \A n \in DOMAIN merged :
                         DedupKey(merged[n].meta) = DedupKey(merged[m].meta)
                            => merged[n].score <= merged[m].score

\* two merged candidates of one key, the later one with the higher score, and one
\* result
C3_Witness ==
    /\ outcome = "returned"
    /\ Len(merged) = 2
    /\ DedupKey(merged[1].meta) = DedupKey(merged[2].meta)
    /\ merged[1].score < merged[2].score
    /\ Len(result) = 1
    /\ result[1].chunk_id = merged[2].chunk_id

\* the chunks of statute 27349, article 5, whatever their other metadata
Statute27349Art5 ==
    {collection[i].id : i \in
        {j \in DOMAIN collection :
            /\ collection[j].meta.numero = S_27349
            /\ collection[j].meta.articulo_nro = <<"5">>}}

\* C4 as stated: the query yields numero 27349 and articulo_nro 5, and a chunk
\* with that numero and articulo_nro, whatever its tipo_norma and siglas, is the
\* first result, with match type exact_metadata (no backend is down).
C4_Claim ==
    (query = Q_ley27349_art5 /\ outcome # "none" /\ down = "none")
       => /\ q_intent.numero = S_27349
          /\ q_intent.articulo_nro = <<"5">>
          /\ Statute27349Art5 # {}
                => /\ outcome = "returned"
                   /\ result # <<>>
                   /\ result[1].chunk_id \in Statute27349Art5
                   /\ result[1].match_type = "exact_metadata"

\* C4 amended: the query yields numero 27349, articulo_nro 5 and tipo_norma ley,
\* and a chunk with that numero, articulo_nro and tipo_norma (and the siglas of
\* the intent when the alias table resolves one) is the first result, with match
\* type exact_metadata.
C4_StatuteScenario ==
    (query = Q_ley27349_art5 /\ outcome # "none")
       => /\ q_intent.numero = S_27349
          /\ q_intent.articulo_nro = <<"5">>
          /\ q_intent.tipo_norma = S_ley
          /\ (Statute27349Art5 \cap AnchoredHits) # {}
                => /\ outcome = "returned"
                   /\ result # <<>>
                   /\ result[1].chunk_id \in (Statute27349Art5 \cap AnchoredHits)
                   /\ result[1].match_type = "exact_metadata"

\* the scenario answered from a two-chunk index that holds one such chunk
C4_Witness ==
    /\ query = Q_ley27349_art5
    /\ outcome = "returned"
    /\ Len(collection) = 2
    /\ Cardinality(Statute27349Art5 \cap AnchoredHits) = 1
    /\ result[1].match_type = "exact_metadata"
    /\ Len(result) = 1

\* C8 as stated: an unreachable vector or lexical backend makes its stage
\* contribute nothing and retrieve still returns, and an absent lexical index
\* does not keep the retriever from being constructed.
C8_Claim ==
    /\ r_status # "failed"
    /\ (outcome # "none" /\ down # "none") => outcome = "returned"

\* C9 as stated: retrieve called with an empty query text returns an empty
\* sequence and does not raise (every backend reachable).
C9_Claim ==
    (r_status = "ok" /\ outcome # "none" /\ query = <<>> /\ down = "none")
       => (outcome = "returned" /\ result = <<>>)

\* C10 as stated: with nothing ingested the retriever answers every query with an
\* empty sequence and never raises.
C10_Claim ==
    collection = <<>>
       => /\ r_status # "failed"
          /\ outcome # "none" => (outcome = "returned" /\ result = <<>>)

\* the position of the result r in the list out, by chunk id
PositionIn(out, r) == CHOOSE k \in DOMAIN out : out[k].chunk_id = r.chunk_id

\* the call named an article and went through the hybrid stages
HybridArticleCall ==
    /\ outcome = "returned"
    /\ HasArticle(q_intent)
    /\ "merge" \in trace

HybridAnchorCall ==
    /\ outcome = "returned"
    /\ "merge" \in trace
    /\ VFilter(q_intent) # <<>>

C19_Claim ==
    outcome = "returned" => returns = {result}

\* the merged candidates the deduplication (lines 441-456) retains
Retained == Dedup(<<>>, merged)

\* C20 as stated: whenever the deduplication removes a result, the retained result
\* with the same key has the same doc_id, also when every document carries the
\* filename-derived fallback metadata (siglas, tipo_norma and numero empty).
C20_Claim ==
    (outcome = "returned" /\ "dedup" \in trace)
       => \A m \in DOMAIN merged :
             (\A k \in DOMAIN Retained : Retained[k].chunk_id # merged[m].chunk_id)
                => \A k \in DOMAIN Retained :
                      DedupKey(Retained[k].meta) = DedupKey(merged[m].meta)
                         => Retained[k].meta.doc_id = merged[m].meta.doc_id

=============================================================================
